---- MODULE Spec2Model ----
(***************************************************************************)
(* Model of the OneSip daily pipeline (src/main.py): protected-term        *)
(* translation of text, boilerplate removal on the parsed issue markup,    *)
(* structured extraction and the aggressive/relaxed orchestration.         *)
(*                                                                         *)
(* Text handed to translate_text is a sequence of one-character strings.   *)
(***************************************************************************)
EXTENDS Integers, Sequences, FiniteSets, TLC

\* ------------------------------------------------------------------------
\* Bounds of the text model
\* ------------------------------------------------------------------------
\* number of segments an input text is composed of
MaxSegs == 4
\* stands for the max_chars=4500 that translate_text passes to
\* _split_by_paragraph (src/main.py:173), scaled to the text sizes above
TranslateMaxChars == 24

\* ------------------------------------------------------------------------
\* Python string primitives used by the translation code
\* ------------------------------------------------------------------------
NL == "\n"
SP == " "

IsSpace(c) == c \in {SP, NL}

SetMin(S) == CHOOSE m \in S : \A n \in S : m <= n
SetMax(S) == CHOOSE m \in S : \A n \in S : n <= m

\* F applied to the value of v, which is computed once
Strict(v, F(_)) == CHOOSE r \in {F(x) : x \in {v}} : TRUE

\* str.strip()
strip(s) ==
    Strict(s, LAMBDA v :
        LET solid == {i \in 1..Len(v) : ~IsSpace(v[i])}
        IN  IF solid = {} THEN <<>> ELSE SubSeq(v, SetMin(solid), SetMax(solid)))

startswith(s, t) == Len(t) <= Len(s) /\ SubSeq(s, 1, Len(t)) = t

\* the 1-based offsets at which t occurs in s (t non-empty)
Occurrences(s, t) == {i \in 1..(Len(s) - Len(t) + 1) : SubSeq(s, i, i + Len(t) - 1) = t}

\* `t in s` for a non-empty t
Contains(s, t) == Occurrences(s, t) # {}

\* str.replace(old, new): leftmost, non-overlapping
RECURSIVE replace(_, _, _)
replace(s, old, new) ==
    Strict(s, LAMBDA v :
        Strict(Occurrences(v, old), LAMBDA occ :
            IF occ = {} THEN v
            ELSE Strict(SetMin(occ), LAMBDA i :
                    SubSeq(v, 1, i - 1) \o new
                    \o replace(SubSeq(v, i + Len(old), Len(v)), old, new))))

\* re.split(r"\n{2,}", s): cut at every maximal run of two or more newlines
RECURSIVE re_split_nl(_)
re_split_nl(s) ==
    Strict(s, LAMBDA v :
        Strict({i \in 1..(Len(v) - 1) : v[i] = NL /\ v[i + 1] = NL}, LAMBDA runs :
            IF runs = {} THEN <<v>>
            ELSE Strict(SetMin(runs), LAMBDA i :
                    Strict({j \in i..Len(v) : v[j] # NL}, LAMBDA after :
                        <<SubSeq(v, 1, i - 1)>>
                        \o re_split_nl(IF after = {} THEN <<>>
                                       ELSE SubSeq(v, SetMin(after), Len(v)))))))

\* sep.join(parts)
RECURSIVE join(_, _)
join(sep, parts) ==
    Strict(parts, LAMBDA ps :
        IF ps = <<>> THEN <<>>
        ELSE IF Len(ps) = 1 THEN ps[1]
        ELSE ps[1] \o sep \o join(sep, Tail(ps)))

\* s[i : i + n] with a 0-based start i
Slice(s, i, n) == SubSeq(s, i + 1, IF i + n < Len(s) THEN i + n ELSE Len(s))

\* str.upper() on the characters of the protected terms
Upper(c) ==
    CASE c = "n" -> "N" [] c = "e" -> "E" [] c = "i" -> "I" [] c = "p" -> "P"
      [] OTHER -> c

IsAlnum(c) == c \in {"O", "n", "e", "S", "i", "p", "N", "E", "I", "P", "a", "x", "k"}

\* re.sub(r'[^A-Za-z0-9]', '', term).upper()
AlnumUpper(s) ==
    LET kept == SelectSeq(s, IsAlnum)
    IN  [i \in 1..Len(kept) |-> Upper(kept[i])]

\* ------------------------------------------------------------------------
\* protect_terms / restore_terms
\* ------------------------------------------------------------------------
OneSip == <<"O", "n", "e", "S", "i", "p">>

PROTECT_TERMS == <<OneSip>>

PlaceholderOf(term) ==
    <<"_", "_", "P", "R", "O", "T", "E", "C", "T", "_">> \o AlnumUpper(term) \o <<"_", "_">>

\* the loop of protect_terms over PROTECT_TERMS[k..]; acc = [out, mapping]
RECURSIVE protect_loop(_, _)
protect_loop(k, acc) ==
    IF k > Len(PROTECT_TERMS) THEN acc
    ELSE Strict(acc, LAMBDA a :
            LET term == PROTECT_TERMS[k]
                placeholder == PlaceholderOf(term)
            IN  IF Contains(a.out, term)
                THEN protect_loop(k + 1,
                        [out |-> replace(a.out, term, placeholder),
                         mapping |-> Append(a.mapping, <<placeholder, term>>)])
                ELSE protect_loop(k + 1, a))

\* returns [out, mapping]; mapping is the dict as a sequence of <<placeholder, term>>
protect_terms(text) ==
    IF text = <<>> THEN [out |-> text, mapping |-> <<>>]
    ELSE protect_loop(1, [out |-> text, mapping |-> <<>>])

RECURSIVE restore_loop(_, _)
restore_loop(out, mapping) ==
    IF mapping = <<>> THEN out
    ELSE Strict(replace(out, mapping[1][1], mapping[1][2]),
                LAMBDA replaced : restore_loop(replaced, Tail(mapping)))

restore_terms(text, mapping) ==
    Strict(text, LAMBDA t :
        IF t = <<>> \/ mapping = <<>> THEN t
        ELSE restore_loop(t, mapping))

\* ------------------------------------------------------------------------
\* _split_by_paragraph
\* ------------------------------------------------------------------------
RECURSIVE StripNonEmpty(_)
StripNonEmpty(ps) ==
    Strict(ps, LAMBDA v :
        IF v = <<>> THEN <<>>
        ELSE Strict(strip(v[1]), LAMBDA p :
                (IF p # <<>> THEN <<p>> ELSE <<>>) \o StripNonEmpty(Tail(v))))

\* paras = [p.strip() for p in re.split(r"\n{2,}", text) if p.strip()]
Paragraphs(text) == StripNonEmpty(re_split_nl(text))

\* for i in range(0, len(add), max_chars): part = add[i:i+max_chars].strip()
RECURSIVE force_split(_, _, _)
force_split(add, i, max_chars) ==
    IF i >= Len(add) THEN <<>>
    ELSE Strict(strip(Slice(add, i, max_chars)), LAMBDA part :
            (IF part # <<>> THEN <<part>> ELSE <<>>)
            \o force_split(add, i + max_chars, max_chars))

RECURSIVE split_loop(_, _, _, _)
split_loop(paras, chunks, buf, max_chars) ==
    Strict(<<paras, chunks, buf>>, LAMBDA st :
        IF st[1] = <<>>
        THEN IF strip(st[3]) # <<>> THEN Append(st[2], strip(st[3])) ELSE st[2]
        ELSE Strict(st[1][1] \o <<NL, NL>>, LAMBDA add :
                IF Len(st[3]) + Len(add) <= max_chars
                THEN split_loop(Tail(st[1]), st[2], st[3] \o add, max_chars)
                ELSE Strict(IF strip(st[3]) # <<>> THEN Append(st[2], strip(st[3]))
                            ELSE st[2],
                       LAMBDA flushed :
                          IF Len(add) > max_chars
                          THEN split_loop(Tail(st[1]),
                                          flushed \o force_split(add, 0, max_chars),
                                          <<>>, max_chars)
                          ELSE split_loop(Tail(st[1]), flushed, add, max_chars))))

\* a split that returns every paragraph as one chunk
_split_by_paragraph_whole(text, max_chars) ==
    Strict(strip(text), LAMBDA t :
        IF t = <<>> THEN <<>> ELSE Paragraphs(t))

_split_by_paragraph(text, max_chars) ==
    Strict(strip(text), LAMBDA t :
        IF t = <<>> THEN <<>>
        ELSE split_loop(Paragraphs(t), <<>>, <<>>, max_chars))

\* ------------------------------------------------------------------------
\* translate_text: state of one call
\* ------------------------------------------------------------------------
VARIABLES
    translator,     \* the module-level translator: "None" or "deepl"
    text,           \* the argument of translate_text
    tt_pc,          \* "idle", "call", "loop" (waiting on the service), "done"
    tt_mapping,     \* mapping returned by protect_terms
    tt_chunks,      \* chunks returned by _split_by_paragraph
    tt_k,           \* index of the chunk being translated (1-based)
    tt_i,           \* the retry loop's i for that chunk
    tt_out_parts,   \* out_parts
    tt_trace,       \* service calls made so far: [k, i, ok, sleep]
    tt_ret,         \* what the call returned or raised
    arg_max_chars   \* the max_chars argument of a call of _split_by_paragraph

textVars == <<translator, text, tt_pc, tt_mapping, tt_chunks, tt_k, tt_i,
              tt_out_parts, tt_trace, tt_ret, arg_max_chars>>

\* default of the retries parameter
retries == 3

Filler == <<"x", "x", "x", "x", "x", "x", "x", "x", "x", "x">>

Segments == {<<"a">>, <<SP>>, <<NL>>, OneSip, PlaceholderOf(OneSip), Filler}

RECURSIVE TextsOf(_)
TextsOf(n) == IF n = 0 THEN {<<>>} ELSE {s \o t : s \in Segments, t \in TextsOf(n - 1)}

Texts == UNION {TextsOf(n) : n \in 0..MaxSegs}

\* a translation that keeps the layout of the chunk and rewrites its letters
KoOf(ch) == [i \in 1..Len(ch) |-> IF ch[i] \in {"a", "x"} THEN "k" ELSE ch[i]]

\* what translator.translate_text may answer for a chunk: the chunk as it is,
\* a rewriting of its letters, or a text unrelated to its layout
ServiceReplies(ch) == {ch, KoOf(ch), <<"k", "o">>}

Return(v) == [kind |-> "return", value |-> v]
Raise(e) == [kind |-> "raise", value |-> e]

TextIdle ==
    /\ text = <<>>
    /\ tt_pc = "idle"
    /\ tt_mapping = <<>>
    /\ tt_chunks = <<>>
    /\ tt_k = 0
    /\ tt_i = 0
    /\ tt_out_parts = <<>>
    /\ tt_trace = <<>>
    /\ tt_ret = Return(<<>>)
    /\ arg_max_chars = TranslateMaxChars

\* a translate_text that hands the text back when no translator is configured
translate_text_entry_silent(tr, t) ==
    IF strip(t) = <<>> \/ tr = "None" THEN "return_text" ELSE "translate"

\* lines 166-169: the two guards of translate_text
translate_text_entry(tr, t) ==
    IF strip(t) = <<>> THEN "return_text"
    ELSE IF tr = "None" THEN "raise"
    ELSE "translate"

\* lines 166-175: the guards, protect_terms and the split
translate_text_call ==
    /\ tt_pc = "call"
    /\ \E entry \in {translate_text_entry(translator, text)} :
       \E pr \in {protect_terms(text)} :
       \E chunks \in {_split_by_paragraph(pr.out, TranslateMaxChars)} :
          CASE entry = "return_text" ->
                  /\ tt_ret' = Return(text)
                  /\ tt_pc' = "done"
                  /\ UNCHANGED <<tt_mapping, tt_chunks, tt_k>>
             [] entry = "raise" ->
                  /\ tt_ret' = Raise("ValueError")
                  /\ tt_pc' = "done"
                  /\ UNCHANGED <<tt_mapping, tt_chunks, tt_k>>
             [] OTHER ->
                  /\ tt_mapping' = pr.mapping
                  /\ tt_chunks' = chunks
                  /\ IF chunks = <<>>
                     THEN tt_ret' = Return(text) /\ tt_pc' = "done" /\ tt_k' = 0
                     ELSE tt_ret' = tt_ret /\ tt_pc' = "loop" /\ tt_k' = 1
    /\ UNCHANGED <<translator, text, tt_i, tt_out_parts, tt_trace, arg_max_chars>>

\* lines 192-195 once a chunk is settled: next chunk, or join and restore
ChunkSettled(parts) ==
    /\ tt_out_parts' = parts
    /\ tt_i' = 0
    /\ tt_k' = tt_k + 1
    /\ IF tt_k = Len(tt_chunks)
       THEN /\ tt_pc' = "done"
            /\ tt_ret' = Return(restore_terms(join(<<NL, NL>>, parts), tt_mapping))
       ELSE UNCHANGED <<tt_pc, tt_ret>>

\* lines 181-188: the service answers
translate_ok ==
    /\ tt_pc = "loop"
    /\ tt_i < retries
    /\ \E r \in ServiceReplies(tt_chunks[tt_k]) :
          /\ tt_trace' = Append(tt_trace, [k |-> tt_k, i |-> tt_i, ok |-> TRUE, sleep |-> 0])
          /\ ChunkSettled(Append(tt_out_parts, r))
    /\ UNCHANGED <<translator, text, tt_mapping, tt_chunks, arg_max_chars>>

\* a retry loop that gives the chunk up after the last failure
translate_fails_dropping ==
    /\ tt_pc = "loop"
    /\ tt_i < retries
    /\ tt_trace' = Append(tt_trace,
                          [k |-> tt_k, i |-> tt_i, ok |-> FALSE, sleep |-> 2 * (tt_i + 1)])
    /\ IF tt_i + 1 = retries
       THEN ChunkSettled(tt_out_parts)
       ELSE /\ tt_i' = tt_i + 1
            /\ UNCHANGED <<tt_k, tt_out_parts, tt_pc, tt_ret>>
    /\ UNCHANGED <<translator, text, tt_mapping, tt_chunks, arg_max_chars>>

\* lines 189-192: the service fails; sleep, retry, or keep the chunk as it is
translate_fails ==
    /\ tt_pc = "loop"
    /\ tt_i < retries
    /\ tt_trace' = Append(tt_trace,
                          [k |-> tt_k, i |-> tt_i, ok |-> FALSE, sleep |-> 2 * (tt_i + 1)])
    /\ IF tt_i + 1 = retries
       THEN ChunkSettled(Append(tt_out_parts, tt_chunks[tt_k]))
       ELSE /\ tt_i' = tt_i + 1
            /\ UNCHANGED <<tt_k, tt_out_parts, tt_pc, tt_ret>>
    /\ UNCHANGED <<translator, text, tt_mapping, tt_chunks, arg_max_chars>>


\* ------------------------------------------------------------------------
\* Parsed markup (BeautifulSoup tree)
\*
\* A tree is the sequence of its nodes in document order.  A node names its
\* parent (0 is the BeautifulSoup object itself) and is either an element
\* (tag, id, style, href, ad) or a text node (tag "#text") whose text is the
\* sequence of its words.  A word is a token with a character length (WordLen),
\* named by a string; the words of a text are separated by single blanks.  `dead` holds the nodes
\* that were decomposed or extracted.
\* ------------------------------------------------------------------------
NoHref == "(no href)"
EMOJI == "U+1F680"
ISSUE_STYLE == "padding-top: 50px"
ALIGN_LEFT == "text-align: left"

Elem(tag, parent, id, style, href, ad) ==
    [tag |-> tag, parent |-> parent, id |-> id, style |-> style, href |-> href,
     ad |-> ad, text |-> <<>>]

El(tag, parent) == Elem(tag, parent, "", {}, NoHref, FALSE)

Txt(parent, words) ==
    [tag |-> "#text", parent |-> parent, id |-> "", style |-> {}, href |-> NoHref,
     ad |-> FALSE, text |-> words]

\* BeautifulSoup(html, "html.parser")
Parse(html) == [nodes |-> html, dead |-> {}]

\* len() of one word
WordLen(w) ==
    CASE w = EMOJI -> 1
      [] w = "Join Free" -> 9
      [] w = "Upgrade" -> 7
      [] w = "Read Online" -> 11
      [] w = "FROM OUR PARTNER" -> 16
      [] w = "From our partner" -> 16
      [] w = "Want to master the AI tools we cover every day?" -> 47
      [] w = "Other news & articles you might like" -> 36
      [] w = "LINK" -> 4
      [] w = "https://x.co/a" -> 14
      [] w = "Techpresso" -> 10
      [] w = "OneSip" -> 6
      [] w = "Big Launch" -> 10
      [] w = "AI Academy" -> 10
      [] w = "story" -> 5
      [] w = "ad" -> 2
      [] w = "(https://x.co/a)" -> 16
      [] w = "www.x.co" -> 8
      [] w = "(" -> 1
      [] w = ")" -> 1
      [] w = "7" -> 1
      [] w = "ko" -> 2
      [] w = "w190" -> 190
      [] w = "w1990" -> 1990
      [] w = "w1700" -> 1700
      [] w = "w2600" -> 2600
      [] w = "w3100" -> 3100
      [] OTHER -> 5

\* str.lower() of one word
Lower(w) ==
    CASE w = "FROM OUR PARTNER" -> "from our partner"
      [] w = "From our partner" -> "from our partner"
      [] OTHER -> w

RECURSIVE SumF(_, _, _)
SumF(f, lo, hi) ==
    IF lo > hi THEN 0
    ELSE IF lo = hi THEN f[lo]
    ELSE LET mid == (lo + hi) \div 2 IN SumF(f, lo, mid) + SumF(f, mid + 1, hi)

RECURSIVE ConcatF(_, _, _)
ConcatF(f, lo, hi) ==
    IF lo > hi THEN <<>>
    ELSE IF lo = hi THEN f[lo]
    ELSE LET mid == (lo + hi) \div 2 IN ConcatF(f, lo, mid) \o ConcatF(f, mid + 1, hi)

\* len() of a text given as words
TextLen(words) ==
    IF words = <<>> THEN 0
    ELSE SumF([n \in 1..Len(words) |-> WordLen(words[n])], 1, Len(words)) + Len(words) - 1

WordsOf(words) == {words[n] : n \in 1..Len(words)}

\* the members of a set of node numbers, in document order
InOrder(S) ==
    IF S = {} THEN <<>>
    ELSE SelectSeq([i \in 1..SetMax(S) |-> i], LAMBDA i : i \in S)

Ids(s) == 1..Len(s.nodes)
Live(s) == Ids(s) \ s.dead
IsTag(s, i) == s.nodes[i].tag # "#text"
IsText(s, i) == s.nodes[i].tag = "#text"
name(s, i) == IF i = 0 THEN "[document]" ELSE s.nodes[i].tag
parent(s, i) == s.nodes[i].parent

\* the .parent chain of node i, nearest first, ending with 0
RECURSIVE parents(_, _)
parents(s, i) == IF i = 0 THEN <<>> ELSE <<parent(s, i)>> \o parents(s, parent(s, i))

Ancestors(s, i) == WordsOf(parents(s, i))

\* node j is i or lies below i
RECURSIVE Within(_, _, _)
Within(s, j, i) ==
    IF j = i THEN TRUE
    ELSE IF j = 0 THEN FALSE
    ELSE Within(s, parent(s, j), i)

\* tag.descendants, still attached
descendants(s, i) == {j \in Live(s) : j # i /\ Within(s, j, i)}

\* tag.contents
contents(s, i) == InOrder({j \in Live(s) : parent(s, j) = i})

\* tag.find_parent(names): the nearest ancestor element with one of the names
find_parent(s, i, names) ==
    LET hits == SelectSeq(parents(s, i), LAMBDA a : a # 0 /\ s.nodes[a].tag \in names)
    IN  IF hits = <<>> THEN 0 ELSE hits[1]

\* tag.find_all(names), in document order
find_all(s, i, names) == InOrder({j \in descendants(s, i) : s.nodes[j].tag \in names})

\* tag.find_all(string=True)
find_all_strings(s, i) == InOrder({j \in descendants(s, i) : IsText(s, j)})

\* tag.get_text(" ", strip=True): the non-blank strings below the tag, joined by blanks
get_text(s, i) ==
    IF i # 0 /\ i \in s.dead THEN <<>>
    ELSE Strict(find_all_strings(s, i),
                LAMBDA strs : ConcatF([k \in 1..Len(strs) |-> s.nodes[strs[k]].text],
                                      1, Len(strs)))

\* tag.decompose() / node.extract(): the node and all below it leave the tree
decompose(s, i) == [s EXCEPT !.dead = @ \cup {j \in Ids(s) : Within(s, j, i)}]

\* Tag.__eq__: same name, same attributes, equal children; str equality for strings
RECURSIVE TagEq(_, _, _)
TagEq(s, a, b) ==
    \/ a = b
    \/ /\ a # 0 /\ b # 0
       /\ s.nodes[a].tag = s.nodes[b].tag
       /\ s.nodes[a].id = s.nodes[b].id
       /\ s.nodes[a].style = s.nodes[b].style
       /\ s.nodes[a].href = s.nodes[b].href
       /\ s.nodes[a].ad = s.nodes[b].ad
       /\ s.nodes[a].text = s.nodes[b].text
       /\ LET ca == contents(s, a)
              cb == contents(s, b)
          IN  /\ Len(ca) = Len(cb)
              /\ \A k \in 1..Len(ca) : TagEq(s, ca[k], cb[k])

\* ------------------------------------------------------------------------
\* Keyword tables and the issue heuristics
\* ------------------------------------------------------------------------
REMOVE_KEYWORDS_HEADER_FOOTER ==
    <<"Join Free", "Upgrade", "Together with", "this is your daily",
      "Not subscribed to", "Subscribe for free", "Advertise", "Feedback", "Read Online">>

\* the second and third entries stand for the two Korean strings of the list
REMOVE_SECTION_KEYWORDS ==
    <<"Want to master the AI tools we cover every day?",
      "(ko) Want to master the AI tools we cover every day?",
      "AI (ko) academy">>

PARTNER_KEYWORDS == <<"FROM OUR PARTNER">>

BRAND_FROM == "Techpresso"
BRAND_TO == "OneSip"

\* k.lower() in t.lower(), at the granularity of words
KeywordIn(k, words) == \E n \in 1..Len(words) : Lower(words[n]) = Lower(k)

_text_has_any(words, keywords) == \E n \in 1..Len(keywords) : KeywordIn(keywords[n], words)

_match_keyword_count(words, keywords) ==
    Cardinality({n \in 1..Len(keywords) : KeywordIn(keywords[n], words)})

\* _EMOJI_RE.search(txt)
HasEmoji(words) == EMOJI \in WordsOf(words)

_table_looks_like_issue(s, t) ==
    LET txt == get_text(s, t)
    IN  \/ txt # <<>> /\ HasEmoji(txt)
        \/ ISSUE_STYLE \in s.nodes[t].style

_container_has_issue_tables(s, i) ==
    \E t \in descendants(s, i) : s.nodes[t].tag = "table" /\ _table_looks_like_issue(s, t)

_container_has_issue_content(s, i) ==
    LET txt == get_text(s, i)
    IN  \/ txt # <<>> /\ HasEmoji(txt)
        \/ \E t \in descendants(s, i) :
              s.nodes[t].tag = "table" /\ _table_looks_like_issue(s, t)


\* ------------------------------------------------------------------------
\* Removal passes.  A pass maps a tree to
\*   [soup, removed, log, raised, hit]
\* where log lists the nodes the pass took out of the tree, each with its
\* tag, the length of its flattened text and _container_has_issue_content
\* as they were just before the removal; raised says that the pass ended in
\* an exception, hit that its loop reached a node decomposed earlier.
\* ------------------------------------------------------------------------
NoNode == -1

HF_MAX_LEN == 1600
KW_CONTAINER_MAX_LEN == 2500
KW_TABLE_MAX_LEN == 1800
PARTNER_CONTAINER_MAX_LEN == 3000
max_blocks == 5

Start(s) == [soup |-> s, removed |-> 0, log |-> <<>>, raised |-> FALSE, hit |-> FALSE]

Removal(pass, s, i) ==
    [pass |-> pass, node |-> i, tag |-> s.nodes[i].tag,
     len |-> TextLen(get_text(s, i)),
     protected |-> _container_has_issue_content(s, i)]

\* tag.decompose() (or node.extract()) inside a pass, and removed += n
Remove(acc, pass, i, n) ==
    [acc EXCEPT !.soup = decompose(acc.soup, i),
                !.removed = @ + n,
                !.log = Append(@, Removal(pass, acc.soup, i))]

\* two passes one after the other; an exception in the first ends the sequence
Then(first, Pass(_)) ==
    Strict(first,
           LAMBDA acc :
              IF acc.raised THEN acc
              ELSE Strict(Pass(acc.soup),
                          LAMBDA r : [soup |-> r.soup, removed |-> acc.removed + r.removed,
                                      log |-> acc.log \o r.log, raised |-> r.raised,
                                      hit |-> acc.hit \/ r.hit]))

HF_CANDIDATE_TAGS == {"header", "footer", "div", "section", "table", "tr", "td"}

RECURSIVE header_footer_loop(_, _, _)
header_footer_loop(sofar, candidates, k) ==
    IF k > Len(candidates) THEN sofar
    ELSE Strict(sofar,
           LAMBDA acc :
             LET tag == candidates[k]
                 txt == get_text(acc.soup, tag)
                 kw == _match_keyword_count(txt, REMOVE_KEYWORDS_HEADER_FOOTER)
             IN  IF txt = <<>> \/ kw = 0 \/ TextLen(txt) > HF_MAX_LEN
                 THEN header_footer_loop(acc, candidates, k + 1)
                 ELSE IF name(acc.soup, tag) \in {"div", "section", "table", "tr", "td"}
                 THEN IF kw >= 2
                      THEN header_footer_loop(Remove(acc, "header_footer", tag, 1),
                                              candidates, k + 1)
                      ELSE header_footer_loop(acc, candidates, k + 1)
                 ELSE header_footer_loop(Remove(acc, "header_footer", tag, 1),
                                         candidates, k + 1))

_remove_techpresso_header_footer_safely(s) ==
    Strict(find_all(s, 0, HF_CANDIDATE_TAGS),
           LAMBDA candidates : header_footer_loop(Start(s), candidates, 1))

\* "from our partner" in str(n).lower()
IsPartnerString(s, n) == IsText(s, n) /\ KeywordIn("from our partner", s.nodes[n].text)

_find_partner_marker_tag(s) ==
    LET byId == {i \in Live(s) : IsTag(s, i) /\ s.nodes[i].id = "main-ad-title"}
        strs == {n \in Live(s) : IsPartnerString(s, n)}
    IN  IF byId # {} THEN SetMin(byId)
        ELSE IF strs = {} THEN NoNode
        ELSE LET n == SetMin(strs)
                 h == find_parent(s, n, {"h1", "h2", "h3", "h4", "h5", "h6"})
                 d == find_parent(s, n, {"div", "section"})
             IN  IF h # 0 THEN h ELSE IF d # 0 THEN d ELSE parent(s, n)

\* marker_tag.find_all_next("table"): the tables that start after the marker
_find_first_issue_table_after(s, marker) ==
    LET tables == {t \in Live(s) : s.nodes[t].tag = "table" /\ t > marker}
        issues == {t \in tables : _table_looks_like_issue(s, t)}
    IN  IF issues # {} THEN SetMin(issues)
        ELSE IF tables # {} THEN SetMin(tables)
        ELSE NoNode

\* x climbs while x.parent is not None and x.parent != common_parent
RECURSIVE ChildUnder(_, _, _)
ChildUnder(s, x, common_parent) ==
    IF x = 0 \/ TagEq(s, parent(s, x), common_parent) THEN x
    ELSE ChildUnder(s, parent(s, x), common_parent)

\* siblings.index(x): 0 when list.index raises ValueError
IndexOf(s, siblings, x) ==
    LET hits == {k \in 1..Len(siblings) : TagEq(s, siblings[k], x)}
    IN  IF hits = {} THEN 0 ELSE SetMin(hits)

RECURSIVE RemoveEach(_, _, _, _)
RemoveEach(sofar, pass, nodes, k) ==
    IF k > Len(nodes) THEN sofar
    ELSE Strict(sofar, LAMBDA acc : RemoveEach(Remove(acc, pass, nodes[k], 1), pass, nodes, k + 1))

\* the removal of siblings[i..j-1] under common_parent, given marker and issue_table
PartnerSpan(s, marker, issue_table, common_parent) ==
    LET start_child == ChildUnder(s, marker, common_parent)
        end_child == ChildUnder(s, issue_table, common_parent)
    IN  Strict(contents(s, common_parent),
          LAMBDA siblings :
            Strict(<<IndexOf(s, siblings, start_child), IndexOf(s, siblings, end_child)>>,
              LAMBDA ij :
                IF ij[1] = 0 \/ ij[2] = 0 \/ ij[1] >= ij[2] THEN Start(s)
                ELSE RemoveEach(Start(s), "partner_span",
                                SubSeq(siblings, ij[1], ij[2] - 1), 1)))

\* parent_chain, then the first c in it with marker_tag in c.descendants
CommonParent(s, marker, issue_table) ==
    LET chain == <<issue_table>> \o parents(s, issue_table)
        holds == SelectSeq(chain, LAMBDA c : \E d \in descendants(s, c) : TagEq(s, d, marker))
    IN  IF holds = <<>> THEN NoNode ELSE holds[1]

_remove_first_partner_block_until_first_issue_table(s) ==
    Strict(_find_partner_marker_tag(s),
      LAMBDA marker :
        IF marker = NoNode THEN Start(s)
        ELSE Strict(_find_first_issue_table_after(s, marker),
               LAMBDA issue_table :
                 IF issue_table = NoNode THEN Start(s)
                 ELSE Strict(CommonParent(s, marker, issue_table),
                        LAMBDA common_parent :
                          IF common_parent = NoNode THEN Start(s)
                          ELSE PartnerSpan(s, marker, issue_table, common_parent))))

\* soup.find(id=...)
find_id(s, id) ==
    LET hits == {i \in Live(s) : IsTag(s, i) /\ s.nodes[i].id = id}
    IN  IF hits = {} THEN NoNode ELSE SetMin(hits)

SpotlightStep(sofar, id) ==
    Strict(sofar,
      LAMBDA acc :
        Strict(find_id(acc.soup, id),
          LAMBDA block :
            IF block = NoNode THEN acc
            ELSE Strict(find_parent(acc.soup, block, {"tr"}),
                   LAMBDA tr : Remove(acc, "spotlight", IF tr # 0 THEN tr ELSE block, 1))))

_remove_spotlight_partner_block(s) ==
    SpotlightStep(SpotlightStep(Start(s), "spotlight-ad-block"), "spotlight-ad-title")

_find_next_partner_text_node(s) ==
    LET strs == {n \in Live(s) : IsPartnerString(s, n)}
    IN  IF strs = {} THEN NoNode ELSE SetMin(strs)

\* the node the function decomposes, or NoNode when it returns False
_remove_partner_block_around_text_node(s, n) ==
    LET tr == find_parent(s, n, {"tr"})
        table == find_parent(s, n, {"table"})
        container == find_parent(s, n, {"div", "section"})
        leaf == find_parent(s, n, {"h1", "h2", "h3", "h4", "p", "td"})
    IN  IF tr # 0 /\ ~_container_has_issue_content(s, tr) THEN tr
        ELSE IF /\ table # 0
                /\ ~_table_looks_like_issue(s, table)
                /\ ~_container_has_issue_content(s, table) THEN table
        ELSE IF /\ container # 0
                /\ ~_container_has_issue_content(s, container)
                /\ get_text(s, container) # <<>>
                /\ TextLen(get_text(s, container)) <= PARTNER_CONTAINER_MAX_LEN THEN container
        ELSE IF leaf # 0
             THEN IF get_text(s, leaf) # <<>> /\ HasEmoji(get_text(s, leaf))
                  THEN NoNode ELSE leaf
        ELSE NoNode

RECURSIVE partner_blocks_loop(_, _)
partner_blocks_loop(sofar, left) ==
    IF left = 0 THEN sofar
    ELSE Strict(sofar,
           LAMBDA acc :
             Strict(_find_next_partner_text_node(acc.soup),
               LAMBDA n :
                 IF n = NoNode THEN acc
                 ELSE Strict(_remove_partner_block_around_text_node(acc.soup, n),
                        LAMBDA block :
                          IF block # NoNode
                          THEN partner_blocks_loop(Remove(acc, "partner_block", block, 1),
                                                   left - 1)
                          ELSE Remove(acc, "partner_block", n, 0))))

_remove_partner_blocks_until_limit(s, limit) == partner_blocks_loop(Start(s), limit)

PartnerBlocksPass(s) == _remove_partner_blocks_until_limit(s, max_blocks)

_remove_partner_everything(s) ==
    Then(Then(Then(Start(s), _remove_first_partner_block_until_first_issue_table),
              _remove_spotlight_partner_block),
         PartnerBlocksPass)

ACADEMY_HREF == "https://academy.techpresso.co/x"

\* "academy.techpresso.co" in href
IsAcademyHref(href) == href = ACADEMY_HREF

\* `lib` says what the library does when the loop reaches a node that an
\* earlier iteration decomposed (its attributes are gone): "raise" an
\* AttributeError, or "skip" it as a node without parent and attributes.
\* The loop goes from anchor k to the next anchor that is decomposed or links
\* to the academy; the anchors in between take the first `continue`.
RECURSIVE academy_loop(_, _, _, _)
academy_loop(sofar, anchors, k, lib) ==
    Strict(sofar,
      LAMBDA acc :
        LET s == acc.soup
            due == {j \in k..Len(anchors) :
                       anchors[j] \in s.dead \/ IsAcademyHref(s.nodes[anchors[j]].href)}
            at == SetMin(due)
            a == anchors[at]
            tr == find_parent(s, a, {"tr"})
            table == find_parent(s, a, {"table"})
            par == find_parent(s, a, {"div", "section", "td", "p"})
        IN  IF due = {} THEN acc
            ELSE IF a \in s.dead
            THEN IF lib = "raise" THEN [acc EXCEPT !.raised = TRUE, !.hit = TRUE]
                 ELSE academy_loop([acc EXCEPT !.hit = TRUE], anchors, at + 1, lib)
            ELSE IF tr # 0 /\ ~_container_has_issue_tables(s, tr)
            THEN academy_loop(Remove(acc, "academy", tr, 1), anchors, at + 1, lib)
            ELSE IF table # 0 /\ ~_container_has_issue_tables(s, table)
            THEN academy_loop(Remove(acc, "academy", table, 1), anchors, at + 1, lib)
            ELSE IF par # 0 /\ ~_container_has_issue_tables(s, par)
            THEN academy_loop(Remove(acc, "academy", par, 1), anchors, at + 1, lib)
            ELSE academy_loop(acc, anchors, at + 1, lib))

_remove_ai_academy_block_by_link(s, lib) ==
    Strict(InOrder({a \in Live(s) : s.nodes[a].tag = "a" /\ s.nodes[a].href # NoHref}),
           LAMBDA anchors : academy_loop(Start(s), anchors, 1, lib))

KW_LEAF_TAGS == {"p", "h1", "h2", "h3", "h4", "td"}

\* the loop over the strings that contain a keyword (the others are skipped
\* by the first `continue`)
RECURSIVE keyword_loop(_, _, _, _, _)
keyword_loop(sofar, pass, nodes, k, lib) ==
    IF k > Len(nodes) THEN sofar
    ELSE Strict(sofar,
           LAMBDA acc :
             LET node == nodes[k]
                 s == acc.soup
                 container == find_parent(s, node, {"div", "section"})
                 table == find_parent(s, node, {"table"})
                 par == parent(s, node)
                 next == k + 1
             IN  IF node \in s.dead
                 THEN IF lib = "raise" THEN [acc EXCEPT !.raised = TRUE, !.hit = TRUE]
                      ELSE keyword_loop([acc EXCEPT !.hit = TRUE], pass, nodes, next, lib)
                 ELSE IF container # 0 /\ _container_has_issue_content(s, container)
                 THEN keyword_loop(acc, pass, nodes, next, lib)
                 ELSE IF /\ container # 0
                         /\ get_text(s, container) # <<>>
                         /\ TextLen(get_text(s, container)) <= KW_CONTAINER_MAX_LEN
                 THEN keyword_loop(Remove(acc, pass, container, 1), pass, nodes, next, lib)
                 ELSE IF table # 0 /\ _table_looks_like_issue(s, table)
                 THEN keyword_loop(acc, pass, nodes, next, lib)
                 ELSE IF /\ table # 0
                         /\ get_text(s, table) # <<>>
                         /\ TextLen(get_text(s, table)) <= KW_TABLE_MAX_LEN
                 THEN keyword_loop(Remove(acc, pass, table, 1), pass, nodes, next, lib)
                 ELSE IF par # 0 /\ name(s, par) \in KW_LEAF_TAGS
                 THEN IF get_text(s, par) # <<>> /\ HasEmoji(get_text(s, par))
                      THEN keyword_loop(acc, pass, nodes, next, lib)
                      ELSE keyword_loop(Remove(acc, pass, par, 1), pass, nodes, next, lib)
                 ELSE keyword_loop(acc, pass, nodes, next, lib))

_remove_blocks_containing_keywords_safely(s, keywords, pass, lib) ==
    Strict(InOrder({n \in Live(s) : IsText(s, n) /\ _text_has_any(s.nodes[n].text, keywords)}),
           LAMBDA nodes : keyword_loop(Start(s), pass, nodes, 1, lib))

\* soup.select("[data-testid='ad'], .sponsor, .advertisement") and decompose each
RECURSIVE ads_loop(_, _, _)
ads_loop(sofar, ads, k) ==
    IF k > Len(ads) THEN sofar
    ELSE Strict(sofar,
           LAMBDA acc :
             IF ads[k] \in acc.soup.dead THEN ads_loop(acc, ads, k + 1)
             ELSE ads_loop(Remove(acc, "ads", ads[k], 1), ads, k + 1))

remove_ads(s) ==
    Strict(InOrder({i \in Live(s) : IsTag(s, i) /\ s.nodes[i].ad}),
           LAMBDA ads : ads_loop(Start(s), ads, 1))


\* ------------------------------------------------------------------------
\* Branding, URL stripping, translation of the text nodes, serialization
\* ------------------------------------------------------------------------
MIN_VISIBLE_LEN == 200
NODE_MAX_LEN == 2000
MIN_LETTERS == 2

\* t.replace(old, new) on the words of a string
ReplaceWord(words, old, new) == [n \in 1..Len(words) |-> IF words[n] = old THEN new ELSE words[n]]

_replace_brand_everywhere(s, old, new) ==
    [s EXCEPT !.nodes =
        [i \in Ids(s) |->
            IF i \in Live(s) /\ IsText(s, i) /\ old \in WordsOf(s.nodes[i].text)
            THEN [s.nodes[i] EXCEPT !.text = ReplaceWord(@, old, new)]
            ELSE s.nodes[i]]]

\* URL_RE finds a match in a word
IsUrl(w) == w \in {"https://x.co/a", "www.x.co", "(https://x.co/a)"}

HasUrl(words) == \E n \in 1..Len(words) : IsUrl(words[n])

\* what URL_RE.sub("", w) leaves of a word: the match runs from the scheme to
\* the end of the word
UrlPrefix(w) == IF w = "(https://x.co/a)" THEN "(" ELSE ""

\* a substitution that stops after the first match
SubUrls_first(words) ==
    LET hits == {n \in 1..Len(words) : IsUrl(words[n])}
    IN  IF hits = {} THEN words
        ELSE SelectSeq([n \in 1..Len(words) |->
                           IF n = SetMin(hits) THEN UrlPrefix(words[n]) ELSE words[n]],
                       LAMBDA w : w # "")

\* URL_RE.sub("", txt)
SubUrls(words) ==
    SelectSeq([n \in 1..Len(words) |-> IF IsUrl(words[n]) THEN UrlPrefix(words[n])
                                       ELSE words[n]],
              LAMBDA w : w # "")

\* re.sub(r"\(\s*\)", "", cleaned): one pass from the left
RECURSIVE DropEmptyParens(_)
DropEmptyParens(words) ==
    Strict(words, LAMBDA ws :
        IF ws = <<>> THEN <<>>
        ELSE IF Len(ws) >= 2 /\ ws[1] = "(" /\ ws[2] = ")"
        THEN DropEmptyParens(SubSeq(ws, 3, Len(ws)))
        ELSE <<ws[1]>> \o DropEmptyParens(Tail(ws)))

\* URL_RE.sub("", txt), the empty parentheses dropped, then the blanks
\* collapsed and stripped
StripUrls(words) == DropEmptyParens(SubUrls(words))

InvisibleParent(s, i) == name(s, parent(s, i)) \in {"script", "style"}

remove_visible_urls(s) ==
    [s EXCEPT !.nodes =
        [i \in Ids(s) |->
            IF /\ i \in Live(s) /\ IsText(s, i)
               /\ ~InvisibleParent(s, i)
               /\ s.nodes[i].text # <<>>
               /\ HasUrl(s.nodes[i].text)
            THEN [s.nodes[i] EXCEPT !.text = StripUrls(@)]
            ELSE s.nodes[i]]]

\* number of ASCII letters of a word, counted up to MIN_LETTERS
WordLetters(w) ==
    CASE w = EMOJI -> 0
      [] w = "7" -> 0
      [] w = "(" -> 0
      [] w = ")" -> 0
      [] w = "ko" -> 0
      [] OTHER -> MIN_LETTERS

Letters(words) ==
    SumF([n \in 1..Len(words) |-> WordLetters(words[n])], 1, Len(words))

\* the text translate_text_nodes_inplace hands to translate_text
TextToTranslate(s, i) ==
    IF HasUrl(s.nodes[i].text) THEN SubUrls(s.nodes[i].text) ELSE s.nodes[i].text

\* the text nodes that reach the call of translate_text (line 713)
SentToTranslate(s) ==
    {i \in Live(s) :
        /\ IsText(s, i)
        /\ ~InvisibleParent(s, i)
        /\ name(s, parent(s, i)) \notin {"strong", "b"}
        /\ s.nodes[i].text # <<>>
        /\ Letters(TextToTranslate(s, i)) >= MIN_LETTERS
        /\ TextLen(TextToTranslate(s, i)) <= NODE_MAX_LEN}

\* what translate_text returns for a node under a service that echoes
\* ("echo") or that answers in Korean and keeps the protected term ("ko")
TranslatedWords(words, svc) ==
    IF svc = "echo" THEN words
    ELSE [n \in 1..Len(words) |-> IF words[n] = "OneSip" THEN "OneSip" ELSE "ko"]

\* [soup, sent, raised]: translate_text raises on the first node it is given
\* when no translator is configured
translate_text_nodes_inplace(s, tr, svc) ==
    LET sent == SentToTranslate(s)
    IN  IF sent # {} /\ translate_text_entry(tr, <<"a">>) = "raise"
        THEN [soup |-> s, sent |-> {}, raised |-> TRUE]
        ELSE [soup |-> [s EXCEPT !.nodes =
                          [i \in Ids(s) |->
                              IF i \in sent
                              THEN [s.nodes[i] EXCEPT
                                      !.text = TranslatedWords(TextToTranslate(s, i), svc)]
                              ELSE s.nodes[i]]],
              sent |-> sent,
              raised |-> FALSE]

\* _find_first_emoji_string
_find_first_emoji_string(s) ==
    LET hits == {i \in Live(s) : IsText(s, i) /\ HasEmoji(s.nodes[i].text)}
    IN  IF hits = {} THEN NoNode ELSE SetMin(hits)

_ensure_first_issue_left_align(s) ==
    LET emoji_node == _find_first_emoji_string(s)
        td == IF emoji_node = NoNode THEN 0 ELSE find_parent(s, emoji_node, {"td"})
    IN  IF emoji_node = NoNode \/ td = 0 \/ ALIGN_LEFT \in s.nodes[td].style THEN s
        ELSE [s EXCEPT !.nodes[td].style = @ \cup {ALIGN_LEFT}]

\* str(soup): the attached nodes in document order.  Neighbouring strings
\* come out as one string.
PrevSibling(s, i) ==
    LET before == {j \in Live(s) : parent(s, j) = parent(s, i) /\ j < i}
    IN  IF before = {} THEN NoNode ELSE SetMax(before)

Absorbed(s, i) ==
    IsText(s, i) /\ PrevSibling(s, i) # NoNode /\ IsText(s, PrevSibling(s, i))

\* the strings that follow string i without an element in between
RunOf(s, i) ==
    {j \in Live(s) :
        /\ IsText(s, j) /\ parent(s, j) = parent(s, i) /\ j >= i
        /\ \A m \in Live(s) : (parent(s, m) = parent(s, i) /\ i < m /\ m < j) => IsText(s, m)}

\* the text of string i and of the strings that follow it directly
Merged(s, i) ==
    Strict(InOrder(RunOf(s, i)),
           LAMBDA run : ConcatF([k \in 1..Len(run) |-> s.nodes[run[k]].text], 1, Len(run)))

Serialize(s) ==
    Strict(InOrder({i \in Live(s) : ~Absorbed(s, i)}),
      LAMBDA kept :
        [k \in 1..Len(kept) |->
            [s.nodes[kept[k]] EXCEPT
                !.parent = IF @ = 0 THEN 0 ELSE CHOOSE r \in 1..Len(kept) : kept[r] = @,
                !.text = IF IsText(s, kept[k]) THEN Merged(s, kept[k]) ELSE @]])

\* len(BeautifulSoup(out_html, "html.parser").get_text(" ", strip=True))
VisibleTextLen(html) == TextLen(get_text(Parse(html), 0))

\* ------------------------------------------------------------------------
\* extract_structured_from_issue_html
\* ------------------------------------------------------------------------
MAX_BULLETS == 6
MAX_OTHER_NEWS == 40
LI_LIMIT == 80
OTHER_NEWS_HEADING == "Other news & articles you might like"

\* tag.find(name) with the names given, NoNode when there is none
find_first(s, i, names) ==
    LET hits == {j \in descendants(s, i) : s.nodes[j].tag \in names}
    IN  IF hits = {} THEN NoNode ELSE SetMin(hits)

\* tag.find("a", href=True)
find_link(s, i) ==
    LET hits == {j \in descendants(s, i) : s.nodes[j].tag = "a" /\ s.nodes[j].href # NoHref}
    IN  IF hits = {} THEN NoNode ELSE SetMin(hits)

\* tag.find_next_sibling(): the next sibling that is an element
find_next_sibling(s, i) ==
    LET after == {j \in Live(s) : parent(s, j) = parent(s, i) /\ j > i /\ IsTag(s, j)}
    IN  IF after = {} THEN NoNode ELSE SetMin(after)

\* the non-empty texts of the li elements below a list, in document order
BulletsOf(s, ul) ==
    Strict(find_all(s, ul, {"li"}),
           LAMBDA lis : SelectSeq([k \in 1..Len(lis) |-> get_text(s, lis[k])],
                                  LAMBDA t : t # <<>>))

\* a slice that keeps the whole list
FirstN_uncapped(seq, n) == seq

\* seq[:n]
FirstN(seq, n) == SubSeq(seq, 1, IF Len(seq) < n THEN Len(seq) ELSE n)

\* a test that lets every record through
record_kept_always(title, link) == TRUE

\* line 815: if title and link
record_kept(title, link) == title # <<>> /\ link \notin {NoHref, ""}

\* the record the loop body builds for one table, as a sequence of 0 or 1 record
IssueOf(s, tbl) ==
    LET td == find_first(s, tbl, {"td"})
        a == IF td = NoNode THEN NoNode ELSE find_link(s, td)
        title == get_text(s, td)
        link == IF a = NoNode THEN NoHref ELSE s.nodes[a].href
        nxt == find_next_sibling(s, tbl)
        bullets == IF nxt # NoNode /\ name(s, nxt) = "ul" THEN BulletsOf(s, nxt) ELSE <<>>
    IN  IF ~_table_looks_like_issue(s, tbl) \/ td = NoNode THEN <<>>
        ELSE IF record_kept(title, link)
        THEN <<[title |-> title, link |-> link, bullets |-> FirstN(bullets, MAX_BULLETS)]>>
        ELSE <<>>

IssuesOf(s) ==
    Strict(find_all(s, 0, {"table"}),
           LAMBDA tables : ConcatF([k \in 1..Len(tables) |-> IssueOf(s, tables[k])],
                                   1, Len(tables)))

\* txt.replace("LINK", "").strip()
StripLinkSuffix(words) == SelectSeq(words, LAMBDA w : w # "LINK")

\* the record one li contributes to other_news, as a sequence of 0 or 1 record
OtherNewsOf(s, li) ==
    LET a == find_link(s, li)
        txt == get_text(s, li)
    IN  IF a # NoNode /\ txt # <<>>
        THEN <<[title |-> StripLinkSuffix(txt), link |-> s.nodes[a].href]>>
        ELSE <<>>

\* container.find_all_next("li", limit=LI_LIMIT)
ListItemsAfter(s, container) ==
    FirstN(InOrder({j \in Live(s) : s.nodes[j].tag = "li" /\ j > container}), LI_LIMIT)

OtherNews(s) ==
    LET headers == {n \in Live(s) : IsText(s, n) /\ OTHER_NEWS_HEADING \in WordsOf(s.nodes[n].text)}
    IN  IF headers = {} THEN <<>>
        ELSE Strict(ListItemsAfter(s, parent(s, SetMin(headers))),
               LAMBDA lis :
                  FirstN(ConcatF([k \in 1..Len(lis) |-> OtherNewsOf(s, lis[k])], 1, Len(lis)),
                         MAX_OTHER_NEWS))

\* the five removal passes that extraction runs on its own tree
ExtractionCleanup(s, lib) ==
    LET academy(t) == _remove_ai_academy_block_by_link(t, lib)
        section(t) == _remove_blocks_containing_keywords_safely(t, REMOVE_SECTION_KEYWORDS,
                                                                 "keyword_section", lib)
        partner(t) == _remove_blocks_containing_keywords_safely(t, PARTNER_KEYWORDS,
                                                                 "keyword_partner", lib)
    IN  Then(Then(Then(Then(Then(Start(s), _remove_techpresso_header_footer_safely),
                            _remove_partner_everything),
                       academy),
                  section),
             partner)

\* [raised, hit, issues, other_news, log]
extract_structured_from_issue_html(html, lib) ==
    Strict(ExtractionCleanup(Parse(html), lib),
      LAMBDA cleaned :
        IF cleaned.raised
        THEN [raised |-> TRUE, hit |-> cleaned.hit, issues |-> <<>>, other_news |-> <<>>,
              log |-> cleaned.log]
        ELSE [raised |-> FALSE, hit |-> cleaned.hit,
              issues |-> IssuesOf(cleaned.soup),
              other_news |-> OtherNews(cleaned.soup),
              log |-> cleaned.log])


\* ------------------------------------------------------------------------
\* Input documents: a wrapper around a few blocks taken from a catalog
\* ------------------------------------------------------------------------
\* blocks per generated document
MaxBlocks == 2
\* list items under the "Other news" heading of the long list
OtherNewsItems == 41
\* list items after the issue table of the long issue
IssueBullets == 7

ISSUE_HREF == "https://x/y"

A(parent_, href) == Elem("a", parent_, "", {}, href, FALSE)

T_header == <<El("div", 0), Txt(1, <<"Join Free", "Upgrade">>)>>

T_promo_story ==
    <<El("table", 0), El("tr", 1), El("td", 2),
      Txt(3, <<EMOJI, "story", "Upgrade", "Read Online">>)>>

T_partner ==
    <<El("h3", 0), Txt(1, <<"FROM OUR PARTNER">>), Txt(0, <<>>),
      El("p", 0), Txt(4, <<"ad", "w190">>)>>

T_partner_cell ==
    <<El("table", 0), El("tr", 1), El("td", 2),
      Txt(3, <<"From our partner", "ad", "w3100">>)>>

T_issue ==
    <<Elem("table", 0, "", {ISSUE_STYLE}, NoHref, FALSE), El("tr", 1), El("td", 2),
      A(3, ISSUE_HREF), Txt(4, <<EMOJI, "Big Launch">>),
      El("ul", 0), El("li", 6), Txt(7, <<"story", "w190">>)>>

T_academy ==
    <<El("table", 0), El("tr", 1), El("td", 2),
      A(3, ACADEMY_HREF), Txt(4, <<EMOJI, "AI Academy">>),
      A(3, ACADEMY_HREF), Txt(6, <<"Want to master the AI tools we cover every day?">>)>>

T_spotlight == <<Elem("div", 0, "spotlight-ad-title", {}, NoHref, FALSE), Txt(1, <<"ad">>)>>

T_section ==
    <<El("div", 0), El("p", 1), Txt(2, <<"Want to master the AI tools we cover every day?">>),
      El("p", 1), Txt(4, <<"w190">>)>>

T_story == <<El("p", 0), Txt(1, <<"story", "w1700">>)>>

T_ad == <<Elem("div", 0, "", {}, NoHref, TRUE), Txt(1, <<"ad">>)>>

T_brand == <<El("p", 0), Txt(1, <<"Techpresso", "https://x.co/a", "story">>)>>

Templates ==
    {T_header, T_promo_story, T_partner, T_partner_cell, T_issue, T_academy,
     T_spotlight, T_section, T_story, T_ad, T_brand}

\* an issue recognised by its style alone, whose first cell has an anchor with
\* the given href ("" for an empty one, NoHref for an anchor without href)
T_issue_plain(href) ==
    <<Elem("table", 0, "", {ISSUE_STYLE}, NoHref, FALSE), El("tr", 1), El("td", 2),
      A(3, href), Txt(4, <<"Big Launch">>)>>

\* an issue followed by a list of IssueBullets items
T_issue_long ==
    <<El("table", 0), El("tr", 1), El("td", 2),
      A(3, ISSUE_HREF), Txt(4, <<EMOJI, "Big Launch">>), El("ul", 0)>>
    \o [n \in 1..(2 * IssueBullets) |->
          IF n % 2 = 1 THEN El("li", 6) ELSE Txt(6 + n - 1, <<"story", ToString(n \div 2)>>)]

\* the heading and a list whose second item is the bare artifact "LINK"
T_other ==
    <<El("h2", 0), Txt(1, <<OTHER_NEWS_HEADING>>), El("ul", 0),
      El("li", 3), A(4, ISSUE_HREF), Txt(5, <<"story", "LINK">>),
      El("li", 3), A(7, ISSUE_HREF), Txt(8, <<"LINK">>)>>

\* the heading and a list of OtherNewsItems linked items
T_other_long ==
    <<El("h2", 0), Txt(1, <<OTHER_NEWS_HEADING>>), El("ul", 0)>>
    \o [n \in 1..(3 * OtherNewsItems) |->
          CASE n % 3 = 1 -> El("li", 3)
            [] n % 3 = 2 -> A(3 + n - 1, ISSUE_HREF)
            [] OTHER -> Txt(3 + n - 1, <<"story", ToString(n \div 3), "LINK">>)]

Wrapper(w) ==
    CASE w = "div" -> <<El("div", 0)>>
      [] w = "td" -> <<El("table", 0), El("tr", 1), El("td", 2)>>
      [] OTHER -> <<>>

Wraps == {"none", "div", "td"}

\* the block's nodes, numbered from offset + 1, its roots hung under container
Place(block, offset, container) ==
    [k \in 1..Len(block) |->
        [block[k] EXCEPT !.parent = IF @ = 0 THEN container ELSE @ + offset]]

RECURSIVE Assemble(_, _, _)
Assemble(acc, container, blocks) ==
    IF blocks = <<>> THEN acc
    ELSE Assemble(acc \o Place(blocks[1], Len(acc), container), container, Tail(blocks))

Doc(w, blocks) == Assemble(Wrapper(w), Len(Wrapper(w)), blocks)

RECURSIVE BlockSeqs(_)
BlockSeqs(n) ==
    IF n = 0 THEN {<<>>}
    ELSE BlockSeqs(n - 1) \cup {Append(bs, t) : bs \in BlockSeqs(n - 1), t \in Templates}

GeneratedDocs == {Doc(w, bs) : w \in Wraps, bs \in BlockSeqs(MaxBlocks)}

ListDocs ==
    {Doc(w, <<a, b>>) : w \in Wraps,
                        a \in {T_issue_long, T_issue_plain(ISSUE_HREF), T_issue_plain(""),
                               T_issue_plain(NoHref)},
                        b \in {T_other, T_other_long}}

SpanDocs ==
    {Doc(w, <<T_partner, m, T_issue>>) : w \in Wraps, m \in {T_story, T_promo_story, T_ad}}

\* an issue next to a table that has the signature but no usable hyperlink
IssueDocs == {Doc(w, <<T_issue, T_issue_plain(h)>>) : w \in Wraps, h \in {"", NoHref}}

\* a header, a partner block, a story and a paragraph with the brand and a URL
FullDocs == {Doc(w, <<T_header, T_partner, T_story, T_brand>>) : w \in Wraps}

Docs == GeneratedDocs \cup ListDocs \cup SpanDocs \cup IssueDocs \cup FullDocs


\* ------------------------------------------------------------------------
\* main and translate_html_preserve_layout: state of one run
\* ------------------------------------------------------------------------
VARIABLES
    raw_html,       \* the markup fetch_issue_html_by_offset returned
    lib,            \* what the library does on a decomposed node, once observed
    pc,             \* where the run is
    policy,         \* "aggressive" (first pass) or "relaxed" (fallback pass)
    soup,           \* the tree being edited (soup, then soup2)
    steps,          \* the steps run so far, each with its policy
    deleted,        \* removals made on soup and soup2, in order
    first_out,      \* out_html of the aggressive pass
    text_len,       \* its visible-text length (-1 before it is measured)
    relaxed_runs,   \* how many times the fallback branch was entered
    ret_html,       \* what translate_html_preserve_layout returned
    structured,     \* what extraction produced, and whether it was saved
    pdf,            \* markup handed to html_to_pdf
    mail            \* markup of the PDF handed to send_email

docVars == <<raw_html, lib, pc, policy, soup, steps, deleted, first_out, text_len,
             relaxed_runs, ret_html, structured, pdf, mail>>

vars == <<textVars, docVars>>

\* an order in which the header/footer pass comes after the translation
AggressiveSteps_late_removal ==
    <<"partner", "academy", "keyword_partner", "keyword_section",
      "ads", "brand", "urls", "translate", "header_footer", "align">>

AggressiveSteps ==
    <<"header_footer", "partner", "academy", "keyword_partner", "keyword_section",
      "ads", "brand", "urls", "translate", "align">>

\* the fallback branch runs the same calls without the header/footer pass
RelaxedSteps == Tail(AggressiveSteps)

StepsOf(p) == IF p = "aggressive" THEN AggressiveSteps ELSE RelaxedSteps

\* the step after `step` under policy p, "serialize" after the last one
NextStep(p, step) ==
    LET seq == StepsOf(p)
        k == CHOOSE n \in 1..Len(seq) : seq[n] = step
    IN  IF k = Len(seq) THEN "serialize" ELSE seq[k + 1]

NoStructured == [raised |-> FALSE, issues |-> <<>>, other_news |-> <<>>, log |-> <<>>,
                 saved |-> FALSE]

LibChoices == IF lib = "unknown" THEN {"raise", "skip"} ELSE {lib}

Tagged(log) == [n \in 1..Len(log) |-> [policy |-> policy] @@ log[n]]

\* a removal pass ran on the tree: keep its tree and log, move on or raise
AfterPass(step, r) ==
    /\ soup' = r.soup
    /\ deleted' = deleted \o Tagged(r.log)
    /\ steps' = Append(steps, <<policy, step>>)
    /\ pc' = IF r.raised THEN "raised" ELSE NextStep(policy, step)
    /\ UNCHANGED <<raw_html, policy, first_out, text_len, relaxed_runs, ret_html,
                   structured, pdf, mail>>

\* a step that edits the tree without removing nodes
AfterEdit(step, s) ==
    /\ soup' = s
    /\ steps' = Append(steps, <<policy, step>>)
    /\ pc' = NextStep(policy, step)
    /\ UNCHANGED <<raw_html, lib, policy, deleted, first_out, text_len, relaxed_runs,
                   ret_html, structured, pdf, mail>>

\* main, lines 999-1002: no issue (None or empty markup)
main_no_issue ==
    /\ pc = "main"
    /\ raw_html = <<>>
    /\ pc' = "no_issue"
    /\ UNCHANGED <<raw_html, lib, policy, soup, steps, deleted, first_out, text_len,
                   relaxed_runs, ret_html, structured, pdf, mail>>
    /\ UNCHANGED textVars

\* a main without the try/except: a failed extraction or save ends the run
main_extract_and_save_fatal ==
    /\ pc = "main"
    /\ raw_html # <<>>
    /\ \E l \in LibChoices, save_ok \in BOOLEAN :
          \E ex \in {extract_structured_from_issue_html(raw_html, l)} :
              /\ structured' = [raised |-> ex.raised, issues |-> ex.issues,
                                other_news |-> ex.other_news, log |-> ex.log,
                                saved |-> ~ex.raised /\ save_ok]
              /\ lib' = IF ex.hit THEN l ELSE lib
              /\ pc' = IF ex.raised \/ ~save_ok THEN "aborted" ELSE "translate_html"
    /\ UNCHANGED <<raw_html, policy, soup, steps, deleted, first_out, text_len,
                   relaxed_runs, ret_html, pdf, mail>>
    /\ UNCHANGED textVars

\* main, lines 1007-1013: extraction and save inside try/except
main_extract_and_save ==
    /\ pc = "main"
    /\ raw_html # <<>>
    /\ \E l \in LibChoices, save_ok \in BOOLEAN :
          \E ex \in {extract_structured_from_issue_html(raw_html, l)} :
              /\ structured' = [raised |-> ex.raised, issues |-> ex.issues,
                                other_news |-> ex.other_news, log |-> ex.log,
                                saved |-> ~ex.raised /\ save_ok]
              /\ lib' = IF ex.hit THEN l ELSE lib
    /\ pc' = "translate_html"
    /\ UNCHANGED <<raw_html, policy, soup, steps, deleted, first_out, text_len,
                   relaxed_runs, ret_html, pdf, mail>>
    /\ UNCHANGED textVars

\* line 724: soup = BeautifulSoup(html, "html.parser")
translate_html_call ==
    /\ pc = "translate_html"
    /\ soup' = Parse(raw_html)
    /\ policy' = "aggressive"
    /\ pc' = AggressiveSteps[1]
    /\ UNCHANGED <<raw_html, lib, steps, deleted, first_out, text_len, relaxed_runs,
                   ret_html, structured, pdf, mail>>
    /\ UNCHANGED textVars

\* line 726
header_footer_step ==
    /\ pc = "header_footer"
    /\ \E r \in {_remove_techpresso_header_footer_safely(soup)} : AfterPass("header_footer", r)
    /\ UNCHANGED lib
    /\ UNCHANGED textVars

\* lines 727, 756
partner_step ==
    /\ pc = "partner"
    /\ \E r \in {_remove_partner_everything(soup)} : AfterPass("partner", r)
    /\ UNCHANGED lib
    /\ UNCHANGED textVars

\* lines 729, 757
academy_step ==
    /\ pc = "academy"
    /\ \E l \in LibChoices :
          \E r \in {_remove_ai_academy_block_by_link(soup, l)} :
              AfterPass("academy", r) /\ lib' = IF r.hit THEN l ELSE lib
    /\ UNCHANGED textVars

\* lines 733, 758
keyword_partner_step ==
    /\ pc = "keyword_partner"
    /\ \E l \in LibChoices :
          \E r \in {_remove_blocks_containing_keywords_safely(soup, PARTNER_KEYWORDS,
                                                               "keyword_partner", l)} :
              AfterPass("keyword_partner", r) /\ lib' = IF r.hit THEN l ELSE lib
    /\ UNCHANGED textVars

\* lines 737, 759
keyword_section_step ==
    /\ pc = "keyword_section"
    /\ \E l \in LibChoices :
          \E r \in {_remove_blocks_containing_keywords_safely(soup, REMOVE_SECTION_KEYWORDS,
                                                               "keyword_section", l)} :
              AfterPass("keyword_section", r) /\ lib' = IF r.hit THEN l ELSE lib
    /\ UNCHANGED textVars

\* lines 741-742, 760-761
ads_step ==
    /\ pc = "ads"
    /\ \E r \in {remove_ads(soup)} : AfterPass("ads", r)
    /\ UNCHANGED lib
    /\ UNCHANGED textVars

\* lines 744, 762
brand_step ==
    /\ pc = "brand"
    /\ AfterEdit("brand", _replace_brand_everywhere(soup, BRAND_FROM, BRAND_TO))
    /\ UNCHANGED textVars

\* lines 746, 763
urls_step ==
    /\ pc = "urls"
    /\ AfterEdit("urls", remove_visible_urls(soup))
    /\ UNCHANGED textVars

\* lines 747, 764: the service echoes or answers in Korean
translate_step ==
    /\ pc = "translate"
    /\ \E svc \in {"echo", "ko"} :
          \E r \in {translate_text_nodes_inplace(soup, translator, svc)} :
              /\ soup' = r.soup
              /\ steps' = Append(steps, <<policy, "translate">>)
              /\ pc' = IF r.raised THEN "raised" ELSE NextStep(policy, "translate")
    /\ UNCHANGED <<raw_html, lib, policy, deleted, first_out, text_len, relaxed_runs,
                   ret_html, structured, pdf, mail>>
    /\ UNCHANGED textVars

\* lines 748, 765
align_step ==
    /\ pc = "align"
    /\ AfterEdit("align", _ensure_first_issue_left_align(soup))
    /\ UNCHANGED textVars

\* does the first pass's output call for the fallback pass?
NeedsFallback(len) == len < MIN_VISIBLE_LEN

\* a fallback pass that goes on with the tree of the first pass
FallbackTree_reused(html, s) == s

\* the tree the fallback pass starts from: soup2 = BeautifulSoup(html, "html.parser")
FallbackTree(html, s) == Parse(html)

\* lines 750-755 and 773: serialize the first pass, measure, fall back or return
serialize_first_pass ==
    /\ pc = "serialize"
    /\ policy = "aggressive"
    /\ \E out_html \in {Serialize(soup)} : \E len \in {VisibleTextLen(out_html)} :
           /\ first_out' = out_html
           /\ text_len' = len
           /\ steps' = Append(steps, <<policy, "serialize">>)
           /\ IF NeedsFallback(len)
              THEN /\ soup' = FallbackTree(raw_html, soup)
                   /\ policy' = "relaxed"
                   /\ relaxed_runs' = relaxed_runs + 1
                   /\ pc' = RelaxedSteps[1]
                   /\ UNCHANGED ret_html
              ELSE /\ ret_html' = out_html
                   /\ pc' = "main_check"
                   /\ UNCHANGED <<soup, policy, relaxed_runs>>
    /\ UNCHANGED <<raw_html, lib, deleted, structured, pdf, mail>>
    /\ UNCHANGED textVars

\* lines 766 and 773: the fallback pass's output is returned as it is
serialize_fallback_pass ==
    /\ pc = "serialize"
    /\ policy = "relaxed"
    /\ ret_html' = Serialize(soup)
    /\ steps' = Append(steps, <<policy, "serialize">>)
    /\ pc' = "main_check"
    /\ UNCHANGED <<raw_html, lib, policy, soup, deleted, first_out, text_len,
                   relaxed_runs, structured, pdf, mail>>
    /\ UNCHANGED textVars

\* a main that renders whatever translate_html_preserve_layout returned
main_check_unguarded ==
    /\ pc = "main_check"
    /\ pc' = "main_send"
    /\ pdf' = ret_html
    /\ UNCHANGED <<raw_html, lib, policy, soup, steps, deleted, first_out, text_len,
                   relaxed_runs, ret_html, structured, mail>>
    /\ UNCHANGED textVars

\* lines 1018-1026: abort on a near-empty result, else render the PDF
main_check ==
    /\ pc = "main_check"
    /\ IF VisibleTextLen(ret_html) < MIN_VISIBLE_LEN
       THEN pc' = "aborted" /\ UNCHANGED pdf
       ELSE pc' = "main_send" /\ pdf' = ret_html
    /\ UNCHANGED <<raw_html, lib, policy, soup, steps, deleted, first_out, text_len,
                   relaxed_runs, ret_html, structured, mail>>
    /\ UNCHANGED textVars

\* line 1030
main_send ==
    /\ pc = "main_send"
    /\ mail' = pdf
    /\ pc' = "done"
    /\ UNCHANGED <<raw_html, lib, policy, soup, steps, deleted, first_out, text_len,
                   relaxed_runs, ret_html, structured, pdf>>
    /\ UNCHANGED textVars

\* no run of main: the state the run variables keep while translate_text is studied alone
DocIdle ==
    /\ raw_html = <<>>
    /\ lib = "unknown"
    /\ pc = "idle"
    /\ policy = "aggressive"
    /\ soup = Parse(<<>>)
    /\ steps = <<>>
    /\ deleted = <<>>
    /\ first_out = <<>>
    /\ text_len = -1
    /\ relaxed_runs = 0
    /\ ret_html = <<>>
    /\ structured = NoStructured
    /\ pdf = <<>>
    /\ mail = <<>>

InitText ==
    /\ translator \in {"None", "deepl"}
    /\ text \in Texts
    /\ tt_pc = "call"
    /\ tt_mapping = <<>>
    /\ tt_chunks = <<>>
    /\ tt_k = 0
    /\ tt_i = 0
    /\ tt_out_parts = <<>>
    /\ tt_trace = <<>>
    /\ tt_ret = Return(<<>>)
    /\ arg_max_chars = TranslateMaxChars
    /\ DocIdle

NextText ==
    \/ translate_text_call /\ UNCHANGED docVars
    \/ translate_ok /\ UNCHANGED docVars
    \/ translate_fails /\ UNCHANGED docVars

SpecText == InitText /\ [][NextText]_vars

Init ==
    /\ translator \in {"None", "deepl"}
    /\ TextIdle
    /\ raw_html \in Docs
    /\ lib = "unknown"
    /\ pc = "main"
    /\ policy = "aggressive"
    /\ soup = Parse(<<>>)
    /\ steps = <<>>
    /\ deleted = <<>>
    /\ first_out = <<>>
    /\ text_len = -1
    /\ relaxed_runs = 0
    /\ ret_html = <<>>
    /\ structured = NoStructured
    /\ pdf = <<>>
    /\ mail = <<>>

Next ==
    \/ main_no_issue
    \/ main_extract_and_save
    \/ translate_html_call
    \/ header_footer_step
    \/ partner_step
    \/ academy_step
    \/ keyword_partner_step
    \/ keyword_section_step
    \/ ads_step
    \/ brand_step
    \/ urls_step
    \/ translate_step
    \/ align_step
    \/ serialize_first_pass
    \/ serialize_fallback_pass
    \/ main_check
    \/ main_send

Spec == Init /\ [][Next]_vars


\* ------------------------------------------------------------------------
\* Claims on translate_text (checked under SpecText)
\* ------------------------------------------------------------------------
TextReturned == tt_pc = "done" /\ tt_ret.kind = "return"

\* C3: every protected term that occurs in a non-blank input text occurs
\* verbatim in what translate_text returns, whatever the service answered.
C3_TermsSurvive ==
    (TextReturned /\ strip(text) # <<>>) =>
        \A n \in 1..Len(PROTECT_TERMS) :
            Contains(text, PROTECT_TERMS[n]) => Contains(tt_ret.value, PROTECT_TERMS[n])

\* every chunk came back from the service as it was sent
EchoedOnly == tt_out_parts = tt_chunks

\* C4: with a service that returns each chunk unchanged, the rejoined chunks
\* have the paragraphs of the text that was split, in the same number and order.
C4_ParagraphsPreserved ==
    (TextReturned /\ tt_chunks # <<>> /\ EchoedOnly) =>
        Paragraphs(join(<<NL, NL>>, tt_out_parts)) = Paragraphs(protect_terms(text).out)

\* C8: with no translator configured, translate_text on a text with a
\* non-whitespace character raises, returns no text and calls no service.
C8_UnconfiguredRaises ==
    (tt_pc = "done" /\ translator = "None" /\ strip(text) # <<>>) =>
        (tt_ret = Raise("ValueError") /\ tt_trace = <<>> /\ tt_out_parts = <<>>)

C8_Witness ==
    /\ tt_pc = "done"
    /\ translator = "None"
    /\ Contains(text, OneSip)
    /\ tt_ret.kind = "raise"

\* ------------------------------------------------------------------------
\* translate_html_preserve_layout's first pass as one function
\* ------------------------------------------------------------------------
\* lines 724-750: [raised, html], the markup the first pass produces when the
\* service behaves as svc and the library as l
FirstPass(html, tr, svc, l) ==
    LET academy(t) == _remove_ai_academy_block_by_link(t, l)
        partner(t) == _remove_blocks_containing_keywords_safely(t, PARTNER_KEYWORDS,
                                                                 "keyword_partner", l)
        section(t) == _remove_blocks_containing_keywords_safely(t, REMOVE_SECTION_KEYWORDS,
                                                                 "keyword_section", l)
        edited(t) == remove_visible_urls(_replace_brand_everywhere(t, BRAND_FROM, BRAND_TO))
    IN  Strict(Then(Then(Then(Then(Then(Then(Start(Parse(html)),
                                             _remove_techpresso_header_footer_safely),
                                        _remove_partner_everything),
                                   academy),
                              partner),
                         section),
                    remove_ads),
          LAMBDA c :
            IF c.raised THEN [raised |-> TRUE, html |-> <<>>]
            ELSE Strict(translate_text_nodes_inplace(edited(c.soup), tr, svc),
                   LAMBDA t :
                     IF t.raised THEN [raised |-> TRUE, html |-> <<>>]
                     ELSE [raised |-> FALSE,
                           html |-> Serialize(_ensure_first_issue_left_align(t.soup))]))

\* what translate_html_preserve_layout can return for html without taking the
\* fallback branch
AggressiveResults(html, tr) ==
    {r.html : r \in {x \in {FirstPass(html, tr, svc, l) : svc \in {"echo", "ko"},
                                                        l \in {"raise", "skip"}} :
                        ~x.raised /\ ~NeedsFallback(VisibleTextLen(x.html))}}

\* ------------------------------------------------------------------------
\* Claims on the run of main (checked under Spec)
\* ------------------------------------------------------------------------
RemovalView(r) == [pass |-> r.pass, tag |-> r.tag, len |-> r.len, protected |-> r.protected]

\* the elements taken out of a tree so far by the removal passes, on the
\* trees of translate_html_preserve_layout and on the tree of extraction
ElementRemovals ==
    {r \in {RemovalView(deleted[k]) : k \in 1..Len(deleted)}
           \cup {RemovalView(structured.log[k]) : k \in 1..Len(structured.log)} :
        /\ r.tag # "#text"
        /\ r.pass \in {"header_footer", "partner_span", "spotlight", "partner_block",
                       "academy", "keyword_section", "keyword_partner"}}

\* C1: no removal pass deletes an element whose subtree is protected content
\* (its text holds a content-marker emoji, or it holds a table with the
\* issue-table signature).
C1_ProtectedNeverDeleted == \A r \in ElementRemovals : ~r.protected

\* the size window the claim gives for a deletion by a pass; a deletion the
\* claim names no window for is a deletion the pass has not bounded
InWindow(r) ==
    CASE r.pass = "header_footer" -> r.len <= 1600
      [] r.pass \in {"keyword_section", "keyword_partner"} /\ r.tag \in {"div", "section"} ->
            r.len <= 2500
      [] r.pass \in {"keyword_section", "keyword_partner"} /\ r.tag = "table" -> r.len <= 1800
      [] r.pass = "partner_block" /\ r.tag \in {"div", "section"} -> r.len <= 3000
      [] OTHER -> FALSE

\* C2: every block a removal pass deletes has a text length inside the pass's
\* size window, and no pass deletes a block whose length it has not bounded.
C2_DeletedWithinWindow == \A r \in ElementRemovals : InWindow(r)

\* extraction has just returned its records to main
Extracted == pc = "translate_html" /\ ~structured.raised

\* the tree extraction read its records from
CleanedTree ==
    ExtractionCleanup(Parse(raw_html), IF lib = "raise" THEN "raise" ELSE "skip").soup

SignatureTables(s) == {t \in Live(s) : s.nodes[t].tag = "table" /\ _table_looks_like_issue(s, t)}

\* the href of the first hyperlink in the first cell of table t, NoHref without one
FirstCellLink(s, t) ==
    LET td == find_first(s, t, {"td"})
        a == IF td = NoNode THEN NoNode ELSE find_link(s, td)
    IN  IF a = NoNode THEN NoHref ELSE s.nodes[a].href

\* C5: every issue record has a non-empty title and a non-empty link; there
\* are at most as many records as tables with the issue signature in the
\* document, and a table whose first cell has no hyperlink gives no record.
C5_IssueRecords ==
    Extracted =>
        \A c \in {CleanedTree} :
            /\ \A k \in 1..Len(structured.issues) :
                  /\ structured.issues[k].title # <<>>
                  /\ structured.issues[k].link \notin {NoHref, ""}
                  /\ \E t \in SignatureTables(c) :
                        FirstCellLink(c, t) = structured.issues[k].link
            /\ Len(structured.issues) <= Cardinality(SignatureTables(Parse(raw_html)))
            /\ Len(structured.issues) <=
                  Cardinality({t \in SignatureTables(c) : FirstCellLink(c, t) # NoHref})

C5_Witness ==
    /\ Extracted
    /\ Len(structured.issues) >= 1
    /\ \E t \in SignatureTables(CleanedTree) : FirstCellLink(CleanedTree, t) = NoHref

IsPrefix(a, b) == Len(a) <= Len(b) /\ SubSeq(b, 1, Len(a)) = a

\* the non-empty texts of the li elements of the list that directly follows table t
ListedAfter(s, t) ==
    LET nxt == find_next_sibling(s, t)
        lis == IF nxt # NoNode /\ name(s, nxt) = "ul"
               THEN {j \in descendants(s, nxt) : s.nodes[j].tag = "li" /\ get_text(s, j) # <<>>}
               ELSE {}
    IN  [k \in 1..Cardinality(lis) |->
            get_text(s, CHOOSE j \in lis : Cardinality({m \in lis : m < j}) = k - 1)]

\* the titles of the linked, non-empty li elements after the heading, in document order
ListedNews(s) ==
    LET heads == {n \in Live(s) : IsText(s, n) /\ OTHER_NEWS_HEADING \in WordsOf(s.nodes[n].text)}
        lis == IF heads = {} THEN {}
               ELSE {j \in Live(s) : /\ s.nodes[j].tag = "li"
                                     /\ j > parent(s, SetMin(heads))
                                     /\ find_link(s, j) # NoNode
                                     /\ get_text(s, j) # <<>>}
    IN  [k \in 1..Cardinality(lis) |->
            StripLinkSuffix(get_text(s, CHOOSE j \in lis : Cardinality({m \in lis : m < j}) = k - 1))]

\* C6: an issue record has at most 6 bullets, the first non-empty items of the
\* list right after its table in document order; other_news has at most 40
\* records, in document order.
C6_CapsAndOrder ==
    Extracted =>
        \A c \in {CleanedTree} :
            /\ \A k \in 1..Len(structured.issues) :
                  /\ Len(structured.issues[k].bullets) <= 6
                  /\ \E t \in SignatureTables(c) :
                        IsPrefix(structured.issues[k].bullets, ListedAfter(c, t))
            /\ Len(structured.other_news) <= 40
            /\ IsPrefix([k \in 1..Len(structured.other_news) |-> structured.other_news[k].title],
                        ListedNews(c))

C6_Witness ==
    /\ Extracted
    /\ \E k \in 1..Len(structured.issues) :
          /\ Len(structured.issues[k].bullets) = 6
          /\ \E t \in SignatureTables(CleanedTree) : Len(ListedAfter(CleanedTree, t)) > 6
    /\ Len(structured.other_news) = 40
    /\ Len(ListedNews(CleanedTree)) > 40

\* C7: every other_news record has a non-empty title, once the artifact "LINK"
\* is stripped, and a link; a list item with an empty title gives no record.
C7_OtherNewsTitled ==
    Extracted =>
        \A k \in 1..Len(structured.other_news) :
            /\ structured.other_news[k].title # <<>>
            /\ structured.other_news[k].link # NoHref

\* translate_html_preserve_layout has returned to main
Returned == pc \in {"main_check", "main_send", "aborted", "done"}

\* the names of the steps run under policy p, in the order they ran
StepsUnder(p) ==
    LET run == SelectSeq(steps, LAMBDA e : e[1] = p)
    IN  [k \in 1..Len(run) |-> run[k][2]]

\* C9: the relaxed pass runs exactly when the first pass's visible text is
\* shorter than 200, at most once, from a tree parsed from the raw markup; its
\* output is returned in that case, the first pass's output otherwise.
C9_FallbackRule ==
    /\ relaxed_runs <= 1
    /\ (policy = "relaxed") <=> (relaxed_runs = 1)
    /\ IF text_len = -1
       THEN relaxed_runs = 0
       ELSE /\ text_len = VisibleTextLen(first_out)
            /\ (relaxed_runs = 1) <=> (text_len < 200)
    /\ (policy = "relaxed" /\ pc = RelaxedSteps[1]) => soup = Parse(raw_html)
    /\ Returned =>
          /\ StepsUnder("aggressive") = AggressiveSteps \o <<"serialize">>
          /\ IF relaxed_runs = 1
             THEN /\ StepsUnder("relaxed") = RelaxedSteps \o <<"serialize">>
                  /\ ret_html = Serialize(soup)
             ELSE /\ StepsUnder("relaxed") = <<>>
                  /\ ret_html = first_out

\* the fallback rescued a run whose first pass had deleted the content
C9_Witness ==
    /\ pc = "main_send"
    /\ relaxed_runs = 1
    /\ text_len < 200
    /\ \E k \in 1..Len(deleted) : deleted[k].policy = "aggressive" /\ deleted[k].protected
    /\ Len(ret_html) > Len(first_out)

\* C10: a result that main accepted from the fallback branch differs from
\* every result the first pass returns for the same markup, so that the
\* caller can tell the fallback from it.
C10_FallbackObservable ==
    (pc \in {"main_send", "done"} /\ relaxed_runs = 1) =>
        ret_html \notin AggressiveResults(raw_html, translator)

\* the passes the relaxed policy may not delete with: the header/footer pass
\* and the removal of the span from the partner marker to the first issue table
RelaxedSkipped == {"header_footer", "partner_span"}

\* C11: the relaxed pass runs neither the header/footer pass nor the deletion
\* of the span from the partner marker to the first issue table (nothing is
\* deleted by them on the fallback tree), and it still runs the keyword-section
\* removal.
C11_RelaxedSkips ==
    /\ <<"relaxed", "header_footer">> \notin {steps[k] : k \in 1..Len(steps)}
    /\ \A k \in 1..Len(deleted) :
          deleted[k].policy = "relaxed" => deleted[k].pass \notin RelaxedSkipped
    /\ (Returned /\ relaxed_runs = 1) =>
          <<"relaxed", "keyword_section">> \in {steps[k] : k \in 1..Len(steps)}

\* C12: main aborts when the markup translate_html_preserve_layout returned
\* (after the relaxed retry, when it ran) has fewer than 200 visible
\* characters, and the PDF render and the mail send come only after that
\* check has passed: nothing shorter is ever rendered or sent.
C12_NoNearEmptyArtifact ==
    /\ pc = "aborted" => VisibleTextLen(ret_html) < 200
    /\ (Returned /\ VisibleTextLen(ret_html) < 200) =>
          pc \in {"main_check", "aborted"} /\ pdf = <<>> /\ mail = <<>>
    /\ pdf # <<>> =>
          /\ pc \in {"main_send", "done"}
          /\ pdf = ret_html
          /\ VisibleTextLen(pdf) >= 200
    /\ mail # <<>> => pc = "done" /\ mail = pdf
    /\ pc \in {"main_send", "done"} => pdf # <<>>
    /\ pc = "done" => mail # <<>>

\* the relaxed retry ran and its result was near-empty too: the run aborted
\* with nothing rendered
C12_Witness ==
    /\ pc = "aborted"
    /\ relaxed_runs = 1
    /\ VisibleTextLen(ret_html) < 200
    /\ pdf = <<>>

\* ------------------------------------------------------------------------
\* The retry loop of translate_text (checked under FairSpecText)
\* ------------------------------------------------------------------------
\* the call runs on: the interpreter takes the next step of the loop, and a
\* call of the service either answers or raises
FairSpecText == SpecText /\ WF_vars(NextText)

\* the service calls made for chunk k, in the order they were made
CallsFor(k) == SelectSeq(tt_trace, LAMBDA c : c.k = k)

\* the calls for one chunk: at most three, numbered from 0, a sleep of
\* strictly growing length after each failure, and nothing after a success
RetryDiscipline(calls) ==
    /\ Len(calls) <= 3
    /\ \A n \in 1..Len(calls) :
          /\ calls[n].i = n - 1
          /\ calls[n].ok => n = Len(calls) /\ calls[n].sleep = 0
          /\ ~calls[n].ok => calls[n].sleep > 0
          /\ \A m \in 1..(n - 1) :
                /\ ~calls[m].ok
                /\ ~calls[n].ok => calls[m].sleep < calls[n].sleep

\* the part kept for a settled chunk: the service's answer, or the chunk
\* itself after three failures
PartFor(k) ==
    LET calls == CallsFor(k)
    IN  /\ calls # <<>>
        /\ IF calls[Len(calls)].ok
           THEN tt_out_parts[k] \in ServiceReplies(tt_chunks[k])
           ELSE Len(calls) = 3 /\ tt_out_parts[k] = tt_chunks[k]

C13_Retry ==
    /\ tt_ret.kind = "raise" => translator = "None" /\ tt_trace = <<>>
    /\ \A n \in 1..(Len(tt_trace) - 1) : tt_trace[n].k <= tt_trace[n + 1].k
    /\ \A n \in 1..Len(tt_trace) : tt_trace[n].k \in 1..Len(tt_chunks)
    /\ \A k \in 1..Len(tt_chunks) : RetryDiscipline(CallsFor(k))
    /\ Len(tt_out_parts) <= Len(tt_chunks)
    /\ \A k \in 1..Len(tt_out_parts) : PartFor(k)
    /\ \A k \in (Len(tt_out_parts) + 1)..Len(tt_chunks) :
          \A n \in 1..Len(CallsFor(k)) : ~CallsFor(k)[n].ok
    /\ (tt_pc = "done" /\ tt_chunks # <<>>) =>
          /\ Len(tt_out_parts) = Len(tt_chunks)
          /\ tt_ret = Return(restore_terms(join(<<NL, NL>>, tt_out_parts), tt_mapping))

\* C13: for each chunk translate_text calls the service at most 3 times,
\* sleeps a strictly increasing delay after each failure, stops at the first
\* success and keeps the protected chunk untranslated when every attempt
\* fails; a service error never makes it raise, the output has one part per
\* chunk in chunk order, and every call of translate_text terminates.
C13_RetryAndTerminate == []C13_Retry /\ <>(tt_pc = "done")

\* a call that lost a chunk to three failures, kept it untranslated, and
\* translated another chunk at the first attempt
C13_Witness ==
    /\ tt_pc = "done"
    /\ tt_ret.kind = "return"
    /\ Len(tt_chunks) >= 2
    /\ \E k \in 1..Len(tt_chunks) :
          /\ Len(CallsFor(k)) = 3
          /\ ~CallsFor(k)[3].ok
          /\ tt_out_parts[k] = tt_chunks[k]
    /\ \E k \in 1..Len(tt_chunks) : Len(CallsFor(k)) = 1 /\ tt_out_parts[k] # tt_chunks[k]

\* ------------------------------------------------------------------------
\* The tree functions called one at a time on a parsed document
\* (SpecPasses): raw_html is the markup, soup the tree after the call, pc the
\* function that was called, deleted what it removed
\* ------------------------------------------------------------------------
URL == "https://x.co/a"

\* a paragraph with displayed URLs next to a hyperlink to the same URL
T_link ==
    <<El("p", 0), Txt(1, <<"Visit", URL, "now">>),
      A(1, URL), Txt(3, <<URL>>),
      El("p", 0), Txt(5, <<"(", "www.x.co", ")", "story", "(https://x.co/a)", "story">>)>>

T_script ==
    <<El("script", 0), Txt(1, <<URL, "story", "story">>),
      El("style", 0), Txt(3, <<"www.x.co", "story">>)>>

\* emphasis around a string, and around a hyperlink that holds the string
T_emphasis ==
    <<El("p", 0), El("strong", 1), Txt(2, <<"Big Launch", "story">>),
      El("b", 1), Txt(4, <<"story", "story">>),
      El("strong", 1), A(6, ISSUE_HREF), Txt(7, <<"Big Launch">>)>>

T_sparse == <<El("p", 0), Txt(1, <<"7">>), El("p", 0), Txt(3, <<EMOJI, "7", URL>>)>>

T_oversized ==
    <<El("p", 0), Txt(1, <<"w2600">>), El("p", 0), Txt(3, <<"w1990", URL>>)>>

EditTemplates == {T_link, T_script, T_emphasis, T_sparse, T_oversized, T_brand, T_issue}

EditDocs ==
    {Doc(w, <<a>>) : w \in Wraps, a \in EditTemplates}
        \cup {Doc(w, <<a, b>>) : w \in Wraps, a \in EditTemplates, b \in EditTemplates}

\* a paragraph with a content marker, outside any table
T_marked_story == <<El("p", 0), Txt(1, <<EMOJI, "story", "w190">>)>>

\* a block that holds an issue table and, after it, the partner heading
T_partner_after_issue ==
    <<El("div", 0),
      Elem("table", 1, "", {ISSUE_STYLE}, NoHref, FALSE), El("tr", 2), El("td", 3),
      A(4, ISSUE_HREF), Txt(5, <<EMOJI, "Big Launch">>),
      El("h3", 1), Txt(7, <<"FROM OUR PARTNER">>)>>

\* a partner heading, something in between, and the first issue table
SpanCaseDocs ==
    {Doc(w, <<a, m, T_issue>>) : w \in Wraps, a \in {T_partner, T_partner_after_issue},
                                 m \in {T_story, T_marked_story, T_ad}}

KEYWORD == REMOVE_SECTION_KEYWORDS[1]

\* a section that holds the keyword paragraph and an issue table
T_section_with_issue ==
    <<El("div", 0), El("p", 1), Txt(2, <<KEYWORD>>),
      Elem("table", 1, "", {ISSUE_STYLE}, NoHref, FALSE), El("tr", 4), El("td", 5),
      A(6, ISSUE_HREF), Txt(7, <<EMOJI, "Big Launch">>)>>

\* a section that holds a short table with the keyword, and a story after it
T_section_with_table ==
    <<El("div", 0), El("table", 1), El("tr", 2), El("td", 3), Txt(4, <<KEYWORD>>),
      El("p", 1), Txt(6, <<"story", "w190">>)>>

\* the keyword in a paragraph of its own, and in a cell of a long table
T_keyword_leaf ==
    <<El("p", 0), Txt(1, <<KEYWORD>>),
      El("table", 0), El("tr", 3), El("td", 4), Txt(5, <<KEYWORD>>),
      El("td", 4), Txt(7, <<"story", "w2600">>)>>

KeywordCaseDocs ==
    {Doc(w, <<a>>) : w \in Wraps,
                     a \in {T_section_with_issue, T_section_with_table, T_keyword_leaf,
                            T_section}}

\* a section over the header/footer window that holds two header links and
\* a long partner row
T_header_with_partner ==
    <<El("div", 0), El("p", 1), Txt(2, <<"Join Free", "Upgrade", "story">>),
      El("table", 1), El("tr", 4), El("td", 5),
      Txt(6, <<"From our partner", "ad", "w1700">>)>>

SequenceCaseDocs == {Doc(w, <<T_header_with_partner>>) : w \in Wraps}

PassDocs == Docs \cup EditDocs \cup SpanCaseDocs \cup KeywordCaseDocs \cup SequenceCaseDocs

\* the call of function fn returned tree s and removed what log lists
Called(fn, s, log) ==
    /\ pc = "parsed"
    /\ pc' = fn
    /\ soup' = s
    /\ deleted' = Tagged(log)
    /\ steps' = <<<<policy, fn>>>>
    /\ UNCHANGED <<raw_html, policy, first_out, text_len, relaxed_runs, ret_html,
                   structured, pdf, mail>>
    /\ UNCHANGED textVars

call_remove_visible_urls ==
    /\ Called("remove_visible_urls", remove_visible_urls(soup), <<>>)
    /\ UNCHANGED lib

call_translate_text_nodes_inplace ==
    /\ \E svc \in {"echo", "ko"} :
          \E r \in {translate_text_nodes_inplace(soup, translator, svc)} :
              Called(IF r.raised THEN "raised" ELSE "translate_text_nodes_inplace",
                     r.soup, <<>>)
    /\ UNCHANGED lib

call_remove_first_partner_block ==
    /\ \E r \in {_remove_first_partner_block_until_first_issue_table(soup)} :
          Called("_remove_first_partner_block_until_first_issue_table", r.soup, r.log)
    /\ UNCHANGED lib

call_remove_blocks_containing_keywords ==
    \E l \in LibChoices :
       \E r \in {_remove_blocks_containing_keywords_safely(soup, REMOVE_SECTION_KEYWORDS,
                                                            "keyword_section", l)} :
           /\ Called(IF r.raised THEN "raised"
                     ELSE "_remove_blocks_containing_keywords_safely", r.soup, r.log)
           /\ lib' = IF r.hit THEN l ELSE lib

\* the removal calls of translate_html_preserve_layout, in its order
RemovalSequence(s, l) ==
    LET academy(t) == _remove_ai_academy_block_by_link(t, l)
        partner(t) == _remove_blocks_containing_keywords_safely(t, PARTNER_KEYWORDS,
                                                                 "keyword_partner", l)
        section(t) == _remove_blocks_containing_keywords_safely(t, REMOVE_SECTION_KEYWORDS,
                                                                 "keyword_section", l)
    IN  Then(Then(Then(Then(Then(Start(s), _remove_techpresso_header_footer_safely),
                            _remove_partner_everything),
                       academy),
                  partner),
             section)

call_removal_sequence ==
    \E l \in LibChoices :
       \E r \in {RemovalSequence(soup, l)} :
           /\ Called(IF r.raised THEN "raised" ELSE "removal_sequence", r.soup, r.log)
           /\ lib' = IF r.hit THEN l ELSE lib

\* the same calls on the tree the first application left
call_removal_sequence_again ==
    /\ pc = "removal_sequence"
    /\ \E l \in LibChoices :
          \E r \in {RemovalSequence(soup, l)} :
              /\ pc' = IF r.raised THEN "raised" ELSE "removal_sequence_again"
              /\ soup' = r.soup
              /\ deleted' = deleted \o Tagged(r.log)
              /\ steps' = Append(steps, <<policy, "removal_sequence">>)
              /\ lib' = IF r.hit THEN l ELSE lib
    /\ UNCHANGED <<raw_html, policy, first_out, text_len, relaxed_runs, ret_html,
                   structured, pdf, mail>>
    /\ UNCHANGED textVars

InitPasses ==
    /\ translator \in {"None", "deepl"}
    /\ TextIdle
    /\ raw_html \in PassDocs
    /\ lib = "unknown"
    /\ pc = "parsed"
    /\ policy = "aggressive"
    /\ soup = Parse(raw_html)
    /\ steps = <<>>
    /\ deleted = <<>>
    /\ first_out = <<>>
    /\ text_len = -1
    /\ relaxed_runs = 0
    /\ ret_html = <<>>
    /\ structured = NoStructured
    /\ pdf = <<>>
    /\ mail = <<>>

NextPasses ==
    \/ call_remove_visible_urls
    \/ call_translate_text_nodes_inplace
    \/ call_remove_first_partner_block
    \/ call_remove_blocks_containing_keywords
    \/ call_removal_sequence
    \/ call_removal_sequence_again

SpecPasses == InitPasses /\ [][NextPasses]_vars

\* the tree the called function was given
Given == Parse(raw_html)

\* elements, their nesting and their attributes are as they were given
SameMarkup ==
    /\ Ids(soup) = Ids(Given)
    /\ soup.dead = Given.dead
    /\ \A i \in Ids(soup) :
          /\ soup.nodes[i].tag = Given.nodes[i].tag
          /\ soup.nodes[i].parent = Given.nodes[i].parent
          /\ IsTag(Given, i) => soup.nodes[i] = Given.nodes[i]

\* the words of a text other than lone parentheses
Plain(words) == SelectSeq(words, LAMBDA w : w \notin {"(", ")"})

VisibleStrings(s) == {i \in Live(s) : IsText(s, i) /\ ~InvisibleParent(s, i)}

\* C14: remove_visible_urls leaves no URL in a visible string and keeps the
\* rest of its words in order ("Visit https://x.co/a now" becomes "Visit
\* now"), leaves a string without URL as it is, and changes no element and no
\* attribute: an href equal to a removed URL stays.
C14_UrlsStripped ==
    pc = "remove_visible_urls" =>
        /\ SameMarkup
        /\ \A i \in VisibleStrings(Given) :
              /\ ~HasUrl(soup.nodes[i].text)
              /\ \A n \in 1..Len(soup.nodes[i].text) : soup.nodes[i].text[n] # ""
              /\ Plain(soup.nodes[i].text) = Plain(SubUrls(Given.nodes[i].text))
        /\ \A i \in Ids(Given) :
              (IsText(Given, i) /\ ~HasUrl(Given.nodes[i].text)) =>
                  soup.nodes[i].text = Given.nodes[i].text
        /\ \A i \in Ids(Given) : soup.nodes[i].href = Given.nodes[i].href

\* "Visit https://x.co/a now" became "Visit now" next to a hyperlink whose
\* href is the removed URL
C14_Witness ==
    /\ pc = "remove_visible_urls"
    /\ \E i, j \in Ids(Given) :
          /\ Given.nodes[i].text = <<"Visit", URL, "now">>
          /\ soup.nodes[i].text = <<"Visit", "now">>
          /\ parent(Given, j) = parent(Given, i)
          /\ Given.nodes[j].tag = "a"
          /\ soup.nodes[j].href = URL

\* string i lies below an element with one of the names
HasAncestor(s, i, names) == \E a \in Ancestors(s, i) : a # 0 /\ s.nodes[a].tag \in names

\* the strings the claim keeps from translation
KeptFromTranslation(s) ==
    {i \in Ids(s) :
        /\ IsText(s, i)
        /\ \/ HasAncestor(s, i, {"script", "style"})
           \/ HasAncestor(s, i, {"strong", "b"})
           \/ Letters(s.nodes[i].text) < 2
           \/ TextLen(s.nodes[i].text) > 2000}

\* C15: translate_text_nodes_inplace changes nothing but the text of the
\* strings it translates (elements, nesting and attributes stay), and a string
\* below script/style, below strong/b, with fewer than 2 ASCII letters or
\* longer than 2000 characters is left as it is and is not sent to the
\* translation service.
C15_TranslationFrame ==
    pc = "translate_text_nodes_inplace" =>
        /\ SameMarkup
        /\ \A i \in KeptFromTranslation(Given) :
              /\ soup.nodes[i].text = Given.nodes[i].text
              /\ i \notin translate_text_nodes_inplace(Given, translator, "echo").sent

\* ------------------------------------------------------------------------
\* The order of the steps in a run of main (checked under Spec)
\* ------------------------------------------------------------------------
\* the steps in the order the claim gives them: header/footer removal, the
\* promotional removals, brand, URLs, translation, serialization
ClaimedOrder ==
    <<"header_footer", "partner", "academy", "keyword_partner", "keyword_section", "ads",
      "brand", "urls", "translate", "serialize">>

\* where the pass that made a removal stands in that order
PassRank(pass) ==
    CASE pass = "header_footer" -> 1
      [] pass \in {"partner_span", "spotlight", "partner_block"} -> 2
      [] pass = "academy" -> 3
      [] pass = "keyword_partner" -> 4
      [] pass = "keyword_section" -> 5
      [] pass = "ads" -> 6

\* C16: in every aggressive pass the steps run in the order header/footer
\* removal, promotional removal (partner, academy, keyword sections, ads),
\* brand substitution, URL stripping, translation, serialization, each once:
\* no removal runs after translation and brand substitution precedes it.
C16_StepOrder ==
    LET run == SelectSeq(StepsUnder("aggressive"),
                         LAMBDA x : \E n \in 1..Len(ClaimedOrder) : ClaimedOrder[n] = x)
        removals == SelectSeq(deleted, LAMBDA r : r.policy = "aggressive")
    IN  /\ IsPrefix(run, ClaimedOrder)
        /\ (policy = "relaxed" \/ Returned) => run = ClaimedOrder
        /\ \A m, n \in 1..Len(removals) :
              m < n => PassRank(removals[m].pass) <= PassRank(removals[n].pass)

\* an aggressive pass that removed a header and a promotional block, replaced
\* the brand, cut a URL, translated, and whose result main accepted
C16_Witness ==
    /\ pc = "main_send"
    /\ relaxed_runs = 0
    /\ \E k \in 1..Len(deleted) : deleted[k].pass = "header_footer"
    /\ \E k \in 1..Len(deleted) : PassRank(deleted[k].pass) \in 2..5
    /\ \E i \in 1..Len(ret_html) : "OneSip" \in WordsOf(ret_html[i].text)
    /\ \E i \in 1..Len(raw_html) : HasUrl(raw_html[i].text)
    /\ \A i \in 1..Len(ret_html) : ~HasUrl(ret_html[i].text)
    /\ <<"aggressive", "translate">> \in {steps[k] : k \in 1..Len(steps)}

\* C17: whatever extraction and the save of the daily record did (no record
\* found, an exception in either), main goes on to the translation path, and
\* that path parses the same raw markup extraction was given.
C17_ExtractionIsSoft ==
    [][/\ (pc = "main" /\ raw_html # <<>>) =>
              /\ pc' = "translate_html"
              /\ raw_html' = raw_html
       /\ pc = "translate_html" =>
              /\ pc' = AggressiveSteps[1]
              /\ soup' = Parse(raw_html)
              /\ raw_html' = raw_html
              /\ structured' = structured]_vars

\* extraction raised, nothing was saved, and the first pass is under way on
\* the tree parsed from the raw markup
C17_Witness ==
    /\ structured.raised
    /\ ~structured.saved
    /\ pc = AggressiveSteps[1]
    /\ soup = Parse(raw_html)

\* the children of the common parent from the one that holds the partner
\* marker up to, and not including, the one that holds the first issue table
\* after the marker
SpanOf(s) ==
    LET marker == _find_partner_marker_tag(s)
        issue_table == IF marker = NoNode THEN NoNode
                       ELSE _find_first_issue_table_after(s, marker)
        common == IF issue_table = NoNode THEN NoNode
                  ELSE CommonParent(s, marker, issue_table)
    IN  IF common = NoNode THEN {}
        ELSE {c \in Live(s) :
                /\ parent(s, c) = common
                /\ ChildUnder(s, marker, common) <= c
                /\ c < ChildUnder(s, issue_table, common)}

\* node i of tree s is, or holds, an article: an issue table or text with a
\* content marker
HoldsArticle(s, i) ==
    IF IsText(s, i) THEN HasEmoji(s.nodes[i].text)
    ELSE \/ _container_has_issue_content(s, i)
         \/ s.nodes[i].tag = "table" /\ _table_looks_like_issue(s, i)

\* C18: the promotional-span pass deletes only siblings from the child that
\* holds the partner marker up to, and not including, the child that holds
\* the first issue table after the marker, and no node it deletes holds an
\* issue table or text with a content marker.
C18_SpanSparesArticles ==
    pc = "_remove_first_partner_block_until_first_issue_table" =>
        /\ {deleted[k].node : k \in 1..Len(deleted)} \subseteq SpanOf(Given)
        /\ \A n \in soup.dead : \E k \in 1..Len(deleted) : Within(Given, n, deleted[k].node)
        /\ \A k \in 1..Len(deleted) : ~HoldsArticle(Given, deleted[k].node)

\* the strings that hold a section keyword
KeywordStrings(s) ==
    {n \in Live(s) : IsText(s, n) /\ _text_has_any(s.nodes[n].text, REMOVE_SECTION_KEYWORDS)}

\* the ancestors of string n the claim lets the pass delete: a div or section
\* of at most 2500 characters, a table of at most 1800, without an article
Qualifying(s, n) ==
    {a \in Ancestors(s, n) \ {0} :
        /\ s.nodes[a].tag \in {"div", "section", "table"}
        /\ get_text(s, a) # <<>>
        /\ TextLen(get_text(s, a)) <= (IF s.nodes[a].tag = "table" THEN KW_TABLE_MAX_LEN
                                       ELSE KW_CONTAINER_MAX_LEN)
        /\ ~HoldsArticle(s, a)}

\* the block the claim has the pass delete for string n: the smallest
\* qualifying ancestor, else the p/h1-h4/td parent, NoNode when there is
\* neither
ClaimedBlock(s, n) ==
    IF Qualifying(s, n) # {} THEN SetMax(Qualifying(s, n))
    ELSE IF name(s, parent(s, n)) \in KW_LEAF_TAGS
            /\ ~HoldsArticle(s, parent(s, n))
    THEN parent(s, n)
    ELSE NoNode

\* C19: for each string that holds a keyword the keyword pass deletes exactly
\* one block: the smallest ancestor inside the size window that is not
\* protected content, and, when no ancestor qualifies, only the p/h1-h4/td
\* parent of the string.
C19_SmallestBlock ==
    pc = "_remove_blocks_containing_keywords_safely" =>
        \A n \in KeywordStrings(Given) :
            LET blocks == {k \in 1..Len(deleted) : Within(Given, n, deleted[k].node)}
            IN  IF ClaimedBlock(Given, n) = NoNode THEN blocks = {}
                ELSE /\ Cardinality(blocks) = 1
                     /\ \A k \in blocks : deleted[k].node = ClaimedBlock(Given, n)

\* C20: the removal sequence of the pipeline (header/footer pass, partner
\* removal with its pass of at most 5 blocks, academy-link pass, keyword
\* passes), applied a second time to the tree its first application left,
\* deletes nothing further.
C20_RemovalIdempotent ==
    [][pc = "removal_sequence" => deleted' = deleted /\ soup'.dead = soup.dead]_vars

\* ------------------------------------------------------------------------
\* Single calls of the text functions (SpecCalls): text is the argument,
\* arg_max_chars the max_chars of _split_by_paragraph, tt_pc the function
\* that returned, tt_chunks the chunks, tt_ret and tt_mapping what
\* protect_terms and restore_terms returned.
\* ------------------------------------------------------------------------
\* largest max_chars a call is made with
MaxChars == 12
\* paragraphs per composed text
MaxParas == 3

Paras ==
    {<<"a">>, <<"a", SP, "a">>, <<"a", NL, "a">>, OneSip, Filler,
     Filler \o <<SP>> \o Filler}

RECURSIVE ParaSeqs(_)
ParaSeqs(n) ==
    IF n = 0 THEN {<<>>} ELSE {<<p>> \o ps : p \in Paras, ps \in ParaSeqs(n - 1)}

\* paragraphs separated by blank lines
ParagraphTexts == {join(<<NL, NL>>, ps) : ps \in UNION {ParaSeqs(n) : n \in 1..MaxParas}}

CallTexts == Texts \cup ParagraphTexts

call_split_by_paragraph ==
    /\ tt_pc = "call"
    /\ \E chunks \in {_split_by_paragraph(text, arg_max_chars)} : tt_chunks' = chunks
    /\ tt_pc' = "_split_by_paragraph"
    /\ UNCHANGED <<translator, text, tt_mapping, tt_k, tt_i, tt_out_parts, tt_trace,
                   tt_ret, arg_max_chars>>
    /\ UNCHANGED docVars

call_protect_terms ==
    /\ tt_pc = "call"
    /\ \E pr \in {protect_terms(text)} :
          /\ tt_ret' = Return(pr.out)
          /\ tt_mapping' = pr.mapping
    /\ tt_pc' = "protect_terms"
    /\ UNCHANGED <<translator, text, tt_chunks, tt_k, tt_i, tt_out_parts, tt_trace,
                   arg_max_chars>>
    /\ UNCHANGED docVars

\* restore_terms on what protect_terms returned
call_restore_terms ==
    /\ tt_pc = "protect_terms"
    /\ \E out \in {restore_terms(tt_ret.value, tt_mapping)} : tt_ret' = Return(out)
    /\ tt_pc' = "restore_terms"
    /\ UNCHANGED <<translator, text, tt_mapping, tt_chunks, tt_k, tt_i, tt_out_parts,
                   tt_trace, arg_max_chars>>
    /\ UNCHANGED docVars

InitCalls ==
    /\ translator = "deepl"
    /\ text \in CallTexts
    /\ arg_max_chars \in 1..MaxChars
    /\ tt_pc = "call"
    /\ tt_mapping = <<>>
    /\ tt_chunks = <<>>
    /\ tt_k = 0
    /\ tt_i = 0
    /\ tt_out_parts = <<>>
    /\ tt_trace = <<>>
    /\ tt_ret = Return(<<>>)
    /\ DocIdle

NextCalls ==
    \/ call_split_by_paragraph
    \/ call_protect_terms
    \/ call_restore_terms

SpecCalls == InitCalls /\ [][NextCalls]_vars

\* the paragraphs of the argument
GivenParagraphs == Paragraphs(strip(text))

\* paragraph p cut at the offsets that are multiples of m, each part stripped
Cut(p, m) ==
    LET n == (Len(p) + m - 1) \div m
        part(k) == strip(SubSeq(p, (k - 1) * m + 1, IF k * m < Len(p) THEN k * m ELSE Len(p)))
    IN  SelectSeq([k \in 1..n |-> part(k)], LAMBDA x : x # <<>>)

\* the paragraphs that fit, whole, and the parts of those that do not
RECURSIVE PiecesOf(_, _)
PiecesOf(paras, m) ==
    IF paras = <<>> THEN <<>>
    ELSE (IF Len(paras[1]) <= m THEN <<paras[1]>> ELSE Cut(paras[1], m))
         \o PiecesOf(Tail(paras), m)

RECURSIVE ParasOfChunks(_)
ParasOfChunks(chunks) ==
    IF chunks = <<>> THEN <<>>
    ELSE Paragraphs(chunks[1]) \o ParasOfChunks(Tail(chunks))

\* C21: for every text and every max_chars >= 1, each chunk that
\* _split_by_paragraph returns is non-empty and at most max_chars characters
\* long; the paragraphs of the chunks, in order, are the paragraphs of the
\* text of at most max_chars characters, whole, and the parts of the longer
\* ones cut at the multiples of max_chars.
C21_ChunksBounded ==
    tt_pc = "_split_by_paragraph" =>
        /\ \A k \in 1..Len(tt_chunks) :
              tt_chunks[k] # <<>> /\ Len(tt_chunks[k]) <= arg_max_chars
        /\ ParasOfChunks(tt_chunks) = PiecesOf(GivenParagraphs, arg_max_chars)

\* a call in which one paragraph is as long as max_chars and another is
\* longer and is cut
C21_Witness ==
    /\ tt_pc = "_split_by_paragraph"
    /\ \E j \in 1..Len(GivenParagraphs) : Len(GivenParagraphs[j]) = arg_max_chars
    /\ \E j \in 1..Len(GivenParagraphs) : Len(GivenParagraphs[j]) > arg_max_chars
    /\ Len(tt_chunks) > Len(GivenParagraphs)

\* C22: for every text, restore_terms applied to what protect_terms(text)
\* returned, with its mapping, returns text exactly.
C22_ProtectRestoreRoundTrip ==
    tt_pc = "restore_terms" => tt_ret.value = text

====
